---- MODULE Spec2Model ----
(***************************************************************************)
(* The backend API client of the Cliq extension (class APIClient): its     *)
(* circuit breaker, its retry recursion and its typed operations, with     *)
(* several calls in flight on one client instance.                         *)
(*                                                                         *)
(* JavaScript runs one callback to completion before the next, so every    *)
(* action below is the code that runs between two suspension points        *)
(* (await fetch, await response.json(), await _sleep).                     *)
(***************************************************************************)
EXTENDS Integers, Sequences, FiniteSets, TLC

\* ------------------------------------------------------------ constants
\* Fields set by the APIClient constructor.
timeout == 10000
maxRetries == 3
retryDelay == 1000
circuitBreakerThreshold == 5
circuitBreakerTimeout == 30000
\* server.js: the limiters, the message length limit and the forced shutdown.
generalMax == 100
analysisMax == 20
MaxMessageLength == 5000
shutdownTimeout == 30000
\* this.stressThreshold = parseInt(process.env.STRESS_THRESHOLD || '7')
stressThreshold == 7

\* JavaScript null, for circuitBreakerResetTime and for an unset timer.
NULL == -1

\* ------------------------------------------------------------ bounds
\* Calls that can be in flight at once on the client.
NumCalls == 2

\* Attempts in flight at once on each client of the service.
MaxPending == 1

\* Attempts in flight at once on the server routes' client, with that client
\* alone in view.
MaxOverlap == 3

\* Requests of the client in one window of the general limiter, with every
\* request input in view.
ServiceHits == 1

\* Requests of the client in one window of the general limiter, with the
\* limiters in view.
LimiterHits == 101
LimiterAnalysisHits == 21

\* Signals sent to the process.
MaxSignals == 2
\* The amounts by which the clock is advanced in one step (it stops early at
\* the next pending timer and at the breaker's reset time).
TickSteps == {1000, 30000}
\* With calls overlapping, the clock moves from one timer to the next, or by
\* a whole breaker timeout.
OverlapTickSteps == {30000}
\* The steps of time while the server shuts down.
ShutdownTickSteps == {10000}

\* ------------------------------------------------------------ time
\* Date.now(). The code only adds durations to Date.now() and compares the
\* sums with later readings of it, so every stored time is kept as an offset
\* from the present instant: the clock reads 0, and the passing of d
\* milliseconds lowers every stored time by d (see Tick).
now == 0

Calls == 1..NumCalls

\* ------------------------------------------------------------ values
Ops == {"analyzeMessage", "getTodayStats", "getTrends", "healthCheck",
        "validateConfig"}
\* With calls overlapping: the POST operation and one GET operation.
OverlapOps == {"analyzeMessage", "getTodayStats"}

\* this.baseURL: undefined when neither the constructor argument nor
\* BACKEND_API_URL is given.
Unset == "undefined"
BaseURLs == {Unset, "http://backend"}

\* The payload a caller passes to analyzeMessage: with its message text,
\* with an empty text, or without one (payload.message undefined).
Payloads == {[message |-> "I am stressed"], [message |-> ""], [message |-> Unset]}
\* With calls overlapping: payloads that have their message.
OverlapPayloads == {[message |-> "I am stressed"]}

\* The days argument a caller passes to getTrends.
Days == {7, 0, -7}
\* With calls overlapping: the default.
OverlapDays == {7}

\* The arguments of a typed operation that its request is built from.
NoArg == [none |-> TRUE]
Arg(op, payload, days) ==
  CASE op = "analyzeMessage" -> payload
    [] op = "getTrends" -> [days |-> days]
    [] OTHER -> NoArg

BaseURLMissingNever(url) == FALSE

\* !this.baseURL of validateConfig.
BaseURLMissing(url) == url = Unset

\* The HTTP method each typed operation passes to _makeRequest.
Method(op) == IF op = "analyzeMessage" THEN "POST" ELSE "GET"

\* HTTP statuses the backend answers with.
Statuses == {200, 404, 503}
OverlapStatuses == {200, 503}

\* Response bodies of a 2xx answer, as text.
RawBodies == {"{\"status\":\"healthy\"}", "{\"status\":\"down\"}", "null", "<html>"}
OverlapRawBodies == {"{\"status\":\"healthy\"}", "null", "<html>"}

\* Errors: name is error.name, code and status stand for error.message.
NoError == [name |-> "none", code |-> "none", status |-> 0]
AbortError == [name |-> "AbortError", code |-> "The user aborted a request", status |-> 0]
NetworkError(code) == [name |-> "FetchError", code |-> code, status |-> 0]
HttpError(status) == [name |-> "Error", code |-> "HTTP", status |-> status]
ParseError == [name |-> "FetchError", code |-> "invalid json response body", status |-> 0]
CircuitOpenError == [name |-> "Error", code |-> "Circuit breaker is OPEN - backend unavailable", status |-> 0]
TypeError == [name |-> "TypeError", code |-> "Cannot read properties of null", status |-> 0]

\* fetch of a URL built from an undefined baseURL ("undefined/health").
InvalidUrlError == [name |-> "TypeError", code |-> "Only absolute URLs are supported", status |-> 0]

\* payload.message.substring(0, 50) on a payload without message.
MissingMessageError == [name |-> "TypeError", code |-> "Cannot read properties of undefined", status |-> 0]

\* The messages of the errors validateConfig throws.
NotConfigured == "BACKEND_API_URL is not configured"
NotResponding == "Backend is not responding"

\* The connection failures fetch rejects with.
NetworkCodes == {"ECONNREFUSED", "ETIMEDOUT", "ECONNRESET"}
OverlapNetworkCodes == {"ECONNREFUSED"}

\* Parsed JSON values: null, or an object with its status field.
NoValue == [type |-> "none", status |-> "none"]
JsonNull == [type |-> "null", status |-> "none"]
JsonObject(status) == [type |-> "object", status |-> status]

\* response.ok of node-fetch: the status is in 200..299.
ResponseOk(status) == status >= 200 /\ status < 300

\* response.json(): the parsed value, or no value when the text is not JSON.
JsonParses(raw) == raw # "<html>"
JsonParse(raw) ==
  CASE raw = "{\"status\":\"healthy\"}" -> JsonObject("healthy")
    [] raw = "{\"status\":\"down\"}" -> JsonObject("down")
    [] raw = "null" -> JsonNull
    [] OTHER -> NoValue

\* ------------------------------------------------------------ state
VARIABLES
  baseURL,  \* the client's baseURL field
  breaker,  \* the client's circuit breaker fields
  calls,    \* the typed operations in flight, one record per call slot
  hist,     \* what has happened on the client so far (for the properties)
  instances, \* the service's APIClient instances: breaker and attempts in flight
  actor,    \* whose client the last step of the instances ran on
  token,    \* ZOHO_VERIFICATION_TOKEN as the webhook handler read it
  limits,   \* the rate limiters' hit counts of one client in the current windows
  req,      \* the HTTP request being served, or the last one answered
  proc      \* the process: start-up, the HTTP server, shutdown

\* The state of the service around the one client that is modelled in full.
serviceVars == <<instances, actor, token, limits, req, proc>>

vars == <<baseURL, breaker, calls, hist, serviceVars>>

IdleCall ==
  [pc |-> "idle", op |-> "none", arg |-> NoArg, retryCount |-> 0, attempts |-> 0,
   timer |-> NULL, age |-> 0, probe |-> FALSE, body |-> "none", slept |-> 0,
   delay |-> 0,
   error |-> NoError, result |-> NoValue,
   outcome |-> "none", value |-> NoValue, healthy |-> FALSE,
   wrapped |-> "none", cause |-> NoError]

\* ------------------------------------------------------------ breaker
RecordFailureOffByOne(b, t) ==
  LET f == b.circuitBreakerFailures + 1 IN
  IF f > circuitBreakerThreshold
    THEN [circuitBreakerFailures |-> f, circuitBreakerOpen |-> TRUE,
          circuitBreakerResetTime |-> t + circuitBreakerTimeout]
    ELSE [b EXCEPT !.circuitBreakerFailures = f]

RecordFailureShortWindow(b, t) ==
  LET f == b.circuitBreakerFailures + 1 IN
  IF f >= circuitBreakerThreshold
    THEN [circuitBreakerFailures |-> f, circuitBreakerOpen |-> TRUE,
          circuitBreakerResetTime |-> t + timeout]
    ELSE [b EXCEPT !.circuitBreakerFailures = f]

RecordFailureKeepsWindow(b, t) ==
  LET f == b.circuitBreakerFailures + 1 IN
  IF f >= circuitBreakerThreshold
    THEN [circuitBreakerFailures |-> f, circuitBreakerOpen |-> TRUE,
          circuitBreakerResetTime |-> IF b.circuitBreakerOpen
                                        THEN b.circuitBreakerResetTime
                                        ELSE t + circuitBreakerTimeout]
    ELSE [b EXCEPT !.circuitBreakerFailures = f]

\* _recordFailure() at time t.
RecordFailure(b, t) ==
  LET f == b.circuitBreakerFailures + 1 IN
  IF f >= circuitBreakerThreshold
    THEN [circuitBreakerFailures |-> f, circuitBreakerOpen |-> TRUE,
          circuitBreakerResetTime |-> t + circuitBreakerTimeout]
    ELSE [b EXCEPT !.circuitBreakerFailures = f]

RecordSuccessClosesBreaker(b) ==
  [b EXCEPT !.circuitBreakerFailures = 0, !.circuitBreakerOpen = FALSE]

RecordSuccessKeepsCount(b) == b

\* _recordSuccess().
RecordSuccess(b) ==
  IF b.circuitBreakerFailures > 0
    THEN [b EXCEPT !.circuitBreakerFailures = 0]
    ELSE b

CheckCircuitBreakerNeverThrows(b, t) ==
  IF ~b.circuitBreakerOpen
    THEN [ok |-> TRUE, reset |-> FALSE, breaker |-> b]
    ELSE IF t >= b.circuitBreakerResetTime
      THEN [ok |-> TRUE, reset |-> TRUE,
            breaker |-> [b EXCEPT !.circuitBreakerOpen = FALSE,
                                  !.circuitBreakerFailures = 0]]
      ELSE [ok |-> TRUE, reset |-> FALSE, breaker |-> b]

CheckCircuitBreakerKeepsCount(b, t) ==
  IF ~b.circuitBreakerOpen
    THEN [ok |-> TRUE, reset |-> FALSE, breaker |-> b]
    ELSE IF t >= b.circuitBreakerResetTime
      THEN [ok |-> TRUE, reset |-> TRUE,
            breaker |-> [b EXCEPT !.circuitBreakerOpen = FALSE]]
      ELSE [ok |-> FALSE, reset |-> FALSE, breaker |-> b]

CheckCircuitBreakerFlipped(b, t) ==
  IF ~b.circuitBreakerOpen
    THEN [ok |-> TRUE, reset |-> FALSE, breaker |-> b]
    ELSE IF t <= b.circuitBreakerResetTime
      THEN [ok |-> TRUE, reset |-> TRUE,
            breaker |-> [b EXCEPT !.circuitBreakerOpen = FALSE,
                                  !.circuitBreakerFailures = 0]]
      ELSE [ok |-> FALSE, reset |-> FALSE, breaker |-> b]

\* _checkCircuitBreaker() at time t: ok is FALSE when it throws; reset says
\* that it closed an open breaker whose timeout had elapsed.
CheckCircuitBreaker(b, t) ==
  IF ~b.circuitBreakerOpen
    THEN [ok |-> TRUE, reset |-> FALSE, breaker |-> b]
    ELSE IF t >= b.circuitBreakerResetTime
      THEN [ok |-> TRUE, reset |-> TRUE,
            breaker |-> [b EXCEPT !.circuitBreakerOpen = FALSE,
                                  !.circuitBreakerFailures = 0]]
      ELSE [ok |-> FALSE, reset |-> FALSE, breaker |-> b]

\* ------------------------------------------------------------ retry policy
ShouldRetryAlways(error) == TRUE

ShouldRetryAnyHttp(error) ==
  \/ error.name = "AbortError"
  \/ error.code = "ECONNREFUSED"
  \/ error.code = "ETIMEDOUT"
  \/ error.code = "HTTP"

\* _shouldRetry(error).
ShouldRetry(error) ==
  \/ error.name = "AbortError"
  \/ error.code = "ECONNREFUSED"
  \/ error.code = "ETIMEDOUT"
  \/ (error.code = "HTTP" /\ error.status \div 100 = 5)

IsGetRequestAlways(method) == TRUE

\* isGetRequest of _makeRequest's catch block.
IsGetRequest(method) == method = "GET"

WillRetryUnbounded(method, retryCount, error) ==
  IsGetRequest(method) /\ ShouldRetry(error)

WillRetryOnceMore(method, retryCount, error) ==
  IsGetRequest(method) /\ retryCount <= maxRetries /\ ShouldRetry(error)

\* shouldRetry of _makeRequest's catch block.
WillRetry(method, retryCount, error) ==
  IsGetRequest(method) /\ retryCount < maxRetries /\ ShouldRetry(error)

\* ------------------------------------------------------------ typed operations
\* The error message prefix each typed operation wraps a failure in.
WrapPrefix(op) ==
  CASE op = "analyzeMessage" -> "Backend analysis failed"
    [] op = "getTodayStats" -> "Failed to fetch stats"
    [] op = "getTrends" -> "Failed to fetch trends"
    [] OTHER -> "none"

OpThrowsAlways(c, error) ==
  [c EXCEPT !.pc = "done", !.timer = NULL, !.age = 0, !.body = "none",
            !.error = error, !.outcome = "threw",
            !.wrapped = WrapPrefix(c.op), !.cause = error]

\* The typed operation op ends with _makeRequest having thrown error.
OpThrows(c, error) ==
  LET d == [c EXCEPT !.pc = "done", !.timer = NULL, !.age = 0, !.body = "none",
                     !.error = error] IN
  CASE c.op = "healthCheck" ->
         [d EXCEPT !.outcome = "returned", !.healthy = FALSE]
    [] c.op = "validateConfig" ->
         \* healthCheck returned false
         [d EXCEPT !.outcome = "threw", !.healthy = FALSE, !.wrapped = NotResponding]
    [] OTHER ->
         [d EXCEPT !.outcome = "threw", !.wrapped = WrapPrefix(c.op), !.cause = error]

\* The typed operation op ends with _makeRequest having returned result.
OpReturns(c, result) ==
  LET d == [c EXCEPT !.pc = "done", !.timer = NULL, !.age = 0, !.body = "none",
                     !.result = result] IN
  CASE c.op = "healthCheck" ->
         \* result.status === 'healthy'; a null result throws inside the try
         [d EXCEPT !.outcome = "returned",
                   !.healthy = (result.type = "object" /\ result.status = "healthy")]
    [] c.op = "validateConfig" ->
         \* isHealthy is what healthCheck returned
         IF result.type = "object" /\ result.status = "healthy"
           THEN [d EXCEPT !.outcome = "returned", !.healthy = TRUE]
           ELSE [d EXCEPT !.outcome = "threw", !.healthy = FALSE,
                          !.wrapped = NotResponding]
    [] c.op = "analyzeMessage" /\ result.type = "null" ->
         \* the log line reads result.sentiment inside the try
         [d EXCEPT !.outcome = "threw", !.wrapped = WrapPrefix(c.op),
                   !.cause = TypeError]
    [] OTHER -> [d EXCEPT !.outcome = "returned", !.value = result]

\* ------------------------------------------------------------ _makeRequest
MakeRequestChecksGetOnly(c, retryCount) ==
  LET chk == IF IsGetRequest(Method(c.op))
               THEN CheckCircuitBreaker(breaker, now)
               ELSE [ok |-> TRUE, reset |-> FALSE, breaker |-> breaker] IN
  IF chk.ok
    THEN [call |-> [c EXCEPT !.pc = "fetching", !.retryCount = retryCount,
                             !.attempts = c.attempts + 1, !.error = NoError,
                             !.timer = now + timeout, !.probe = chk.reset],
          breaker |-> chk.breaker, reset |-> chk.reset]
    ELSE [call |-> OpThrows([c EXCEPT !.retryCount = retryCount], CircuitOpenError),
          breaker |-> chk.breaker, reset |-> chk.reset]

MakeRequestChecksFirstAttemptOnly(c, retryCount) ==
  LET chk == IF retryCount > 0
               THEN [ok |-> TRUE, reset |-> FALSE, breaker |-> breaker]
               ELSE CheckCircuitBreaker(breaker, now) IN
  IF chk.ok
    THEN [call |-> [c EXCEPT !.pc = "fetching", !.retryCount = retryCount,
                             !.attempts = c.attempts + 1, !.error = NoError,
                             !.timer = now + timeout, !.probe = chk.reset],
          breaker |-> chk.breaker, reset |-> chk.reset]
    ELSE [call |-> OpThrows([c EXCEPT !.retryCount = retryCount], CircuitOpenError),
          breaker |-> chk.breaker, reset |-> chk.reset]

MakeRequestSkipsCheck(c, retryCount) ==
  LET chk == CheckCircuitBreaker(breaker, now) IN
  [call |-> [c EXCEPT !.pc = "fetching", !.retryCount = retryCount,
                      !.attempts = c.attempts + 1, !.error = NoError,
                      !.timer = now + timeout, !.probe = chk.reset],
   breaker |-> chk.breaker, reset |-> chk.reset]

MakeRequestCountsRejection(c, retryCount) ==
  LET chk == CheckCircuitBreaker(breaker, now) IN
  IF chk.ok
    THEN [call |-> [c EXCEPT !.pc = "fetching", !.retryCount = retryCount,
                             !.attempts = c.attempts + 1, !.error = NoError,
                             !.timer = now + timeout, !.probe = chk.reset],
          breaker |-> chk.breaker, reset |-> chk.reset]
    ELSE [call |-> OpThrows([c EXCEPT !.retryCount = retryCount], CircuitOpenError),
          breaker |-> RecordFailure(chk.breaker, now), reset |-> chk.reset]

\* _makeRequest(url, options, retryCount) up to its first await: the breaker
\* check and, when it passes, the start of fetch and of the abort timer.
\* Gives the call's record and the breaker afterwards.
MakeRequest(c, retryCount) ==
  LET chk == CheckCircuitBreaker(breaker, now) IN
  IF chk.ok
    THEN [call |-> [c EXCEPT !.pc = "fetching", !.retryCount = retryCount,
                             !.attempts = c.attempts + 1, !.error = NoError,
                             !.timer = now + timeout, !.probe = chk.reset],
          breaker |-> chk.breaker, reset |-> chk.reset]
    ELSE [call |-> OpThrows([c EXCEPT !.retryCount = retryCount], CircuitOpenError),
          breaker |-> chk.breaker, reset |-> chk.reset]

CatchBlockConstantDelay(c, error) ==
  IF WillRetry(Method(c.op), c.retryCount, error)
    THEN [c EXCEPT !.pc = "sleeping", !.age = 0, !.body = "none", !.error = error,
                   !.timer = now + retryDelay,
                   !.slept = c.slept + retryDelay, !.delay = retryDelay]
    ELSE OpThrows(c, error)

\* The catch block of _makeRequest for an attempt that failed with error,
\* after the failure has been recorded: sleep and retry, or throw.
CatchBlock(c, error) ==
  IF WillRetry(Method(c.op), c.retryCount, error)
    THEN [c EXCEPT !.pc = "sleeping", !.age = 0, !.body = "none", !.error = error,
                   !.timer = now + retryDelay * (c.retryCount + 1),
                   !.slept = c.slept + retryDelay * (c.retryCount + 1),
                   !.delay = retryDelay * (c.retryCount + 1)]
    ELSE OpThrows(c, error)

Cap(n) == IF n > circuitBreakerThreshold THEN circuitBreakerThreshold ELSE n

\* hist.consec: failed HTTP attempts since the last successful attempt or
\* lazy breaker reset; hist.total: failed HTTP attempts since construction
\* (both counted up to the threshold); hist.http: some attempt was answered
\* with a non-2xx status; hist.other: some attempt failed otherwise than by
\* an HTTP 5xx answer; hist.calls: typed operations called since construction
\* (counted up to 2); hist.probes: every failed attempt was healthCheck's.
HistFailure(h, op, error) ==
  [h EXCEPT !.consec = Cap(h.consec + 1), !.total = Cap(h.total + 1),
            !.probes = h.probes /\ op = "healthCheck",
            !.http = h.http \/ error.code = "HTTP",
            !.other = h.other \/ ~(error.code = "HTTP" /\ error.status \div 100 = 5)]
HistCall(h) == [h EXCEPT !.calls = IF h.calls >= 2 THEN 2 ELSE h.calls + 1]
HistSuccess(h) == [h EXCEPT !.consec = 0]
HistReset(h, reset) == IF reset THEN [h EXCEPT !.consec = 0] ELSE h

\* ------------------------------------------------------------ the service's clients
\* The parts of the service that call the backend.
Owners == {"server", "webhook", "teamMood"}

ClientOfShared(owner) == "server"

\* The APIClient instance an owner's calls run on: the server module and
\* each handler construct their own with new APIClient().
ClientOf(owner) == owner

Instances == {ClientOf(o) : o \in Owners}

\* The breaker fields as the constructor sets them.
NewBreaker ==
  [circuitBreakerFailures |-> 0, circuitBreakerOpen |-> FALSE,
   circuitBreakerResetTime |-> NULL]

InstancesInit ==
  /\ instances = [k \in Instances |-> [breaker |-> NewBreaker, pending |-> 0]]
  /\ actor = "none"

\* ------------------------------------------------------------ the service's state
\* A token (environment variable or request header): not given, or its bytes.
NoToken == [set |-> FALSE, bytes |-> <<>>]
Token(bytes) == [set |-> TRUE, bytes |-> bytes]

\* ZOHO_VERIFICATION_TOKEN: unset, set to the empty string, or set.
ConfiguredTokens == {NoToken, Token(<<>>), Token(<<1, 2>>)}

\* The x-zoho-verification-token header: missing, empty, the configured
\* token, another token of its length, a shorter and a longer one.
Headers == {NoToken, Token(<<>>), Token(<<1, 2>>), Token(<<1, 3>>), Token(<<1>>),
            Token(<<1, 2, 3>>)}

\* A message text of a request body: its length, its length after trim() and
\* the bot command words it contains; or a text field that is missing, or a
\* number.
Text(length, trimmed, command) ==
  [kind |-> "string", length |-> length, trimmed |-> trimmed, command |-> command]
NoText == [kind |-> "missing", length |-> 0, trimmed |-> 0, command |-> "none"]
NumberText == [kind |-> "number", length |-> 0, trimmed |-> 0, command |-> "none"]

Texts ==
  {NoText, NumberText, Text(0, 0, "none"), Text(3, 0, "none"),
   Text(12, 10, "none"), Text(12, 10, "help"), Text(12, 10, "status"),
   Text(12, 10, "help status"),
   Text(MaxMessageLength, MaxMessageLength, "none"),
   Text(MaxMessageLength + 1, MaxMessageLength + 1, "none"),
   Text(MaxMessageLength + 2, MaxMessageLength, "none"),
   Text(MaxMessageLength + 1, 0, "none"),
   Text(MaxMessageLength + 1, MaxMessageLength + 1, "status")}

\* command.includes(word): the lower-cased text contains the word.
Contains(text, word) == text.command = word \/ text.command = "help status"

EventTypes == {"message", "bot_mention", "participant_joined", "reaction"}

\* What a request carries: the verification header, and in its body the
\* event type, user.is_bot and message.text.
Input(header, type, isBot, text) ==
  [header |-> header, type |-> type, isBot |-> isBot, text |-> text]
PlainInput == Input(Token(<<1, 2>>), "message", FALSE, Text(12, 10, "none"))

\* Requests to the webhook: every header with a plain event, and every
\* event under the header that carries the configured token.
WebhookInputs ==
  {Input(h, "message", FALSE, Text(12, 10, "none")) : h \in Headers}
    \cup {Input(Token(<<1, 2>>), ty, b, tx) :
            ty \in EventTypes, b \in BOOLEAN, tx \in Texts}
\* Requests to the message actions: every text.
ActionInputs == {Input(NoToken, "message", FALSE, tx) : tx \in Texts}

Routes == {"/bot/webhook", "/commands/team-mood", "/actions/analyze",
           "/actions/suggest-reply", "/health", "/"}

Inputs(route) ==
  CASE route = "/bot/webhook" -> WebhookInputs
    [] route \in {"/actions/analyze", "/actions/suggest-reply"} -> ActionInputs
    [] OTHER -> {PlainInput}

\* With the limiters or the process in view: one plain request per route.
PlainInputs(route) == {PlainInput}

\* ------------------------------------------------------------ the /team-mood card
\* Numbers are counted in tenths: a percentage of 45.5 is 455.
\* A JavaScript number: NaN, an infinity, or a finite number of tenths.
NaN == [nan |-> TRUE, inf |-> 0, tenths |-> 0]
Infinite(sign) == [nan |-> FALSE, inf |-> sign, tenths |-> 0]
Finite(t) == [nan |-> FALSE, inf |-> 0, tenths |-> t]

\* A field of the stats object as JSON.parse delivers it: a number, a
\* string with the number it starts with (NaN if it starts with none), null,
\* or a field that is absent.
JsonNumber(n) == [type |-> "number", num |-> n]
JsonString(n) == [type |-> "string", num |-> n]
JsonNullField == [type |-> "null", num |-> NaN]
Absent == [type |-> "undefined", num |-> NaN]

\* The percentages a stats result can carry: in range (with the values
\* around a rounding step), out of range, negative, beyond the range of a
\* double (1e999), a numeric string, a word, null and absent.
PctValues ==
  {JsonNumber(Finite(t)) : t \in {0, 49, 50, 333, 449, 450, 949, 950, 1000, 1001, 2500,
                                  -1, -50, -2500}}
    \cup {JsonNumber(Infinite(1)), JsonNumber(Infinite(-1)),
          JsonString(Finite(855)), JsonString(Finite(1500)), JsonString(NaN),
          JsonNullField, Absent}

Stats(positive, neutral, negative) ==
  [positive_pct |-> positive, neutral_pct |-> neutral, negative_pct |-> negative]
NoStats == Stats(Absent, Absent, Absent)

\* The stats objects of the backend: every percentage in one field beside
\* every percentage in another, the third being what is left of 100.
StatsResults ==
  {Stats(p, q, JsonNumber(Finite(100))) : p, q \in PctValues}
    \cup {Stats(JsonNumber(Finite(600)), JsonNumber(Finite(300)), r) : r \in PctValues}
\* With the other routes in view: one stats object.
PlainStats == {Stats(JsonNumber(Finite(600)), JsonNumber(Finite(300)), JsonNumber(Finite(100)))}

\* A destructuring default: it stands in for a field that is undefined.
Default(field, value) == IF field.type = "undefined" THEN JsonNumber(Finite(value)) ELSE field

\* parseFloat(value).
ParseFloat(field) == IF field.type \in {"number", "string"} THEN field.num ELSE NaN

\* Math.min(a, b) and Math.max(a, b) of a finite bound a and a number b
\* that is not NaN.
MathMin(a, b) ==
  IF b.inf = 1 THEN Finite(a)
  ELSE IF b.inf = -1 THEN b
  ELSE IF a < b.tenths THEN Finite(a) ELSE b
MathMax(a, b) ==
  IF b.inf = -1 THEN Finite(a)
  ELSE IF b.inf = 1 THEN b
  ELSE IF a > b.tenths THEN Finite(a) ELSE b

ValidateNumberNoClamp(field, defaultValue, min, max) ==
  LET num == ParseFloat(field) IN
    IF num.nan THEN Finite(defaultValue) ELSE num

\* TeamMoodCommandHandler._validateNumber(value, defaultValue, min, max).
ValidateNumber(field, defaultValue, min, max) ==
  LET num == ParseFloat(field) IN
    IF num.nan THEN Finite(defaultValue) ELSE MathMax(min, MathMin(max, num))

\* Math.round(percentage / 10) of a finite percentage: the nearest integer,
\* a half going up.
RoundTenth(tenths) == (tenths + 50) \div 100

\* String.prototype.repeat(count) of a one-cell string.
Repeat(cell, count) == [i \in 1..count |-> cell]

\* TeamMoodCommandHandler._createBar(percentage, emoji): the bar's cells;
\* repeat throws a RangeError on a negative or infinite count.
CreateBar(percentage) ==
  IF percentage.inf # 0 THEN [threw |-> TRUE, cells |-> <<>>]
  ELSE LET filled == RoundTenth(percentage.tenths)
           empty == 10 - filled IN
         IF filled < 0 \/ empty < 0
           THEN [threw |-> TRUE, cells |-> <<>>]
           ELSE [threw |-> FALSE,
                 cells |-> Repeat("filled", filled) \o Repeat("empty", empty)]

\* TeamMoodCommandHandler._buildSentimentBars(positive, neutral, negative):
\* the three bars.
BuildSentimentBars(positive, neutral, negative) ==
  <<CreateBar(positive), CreateBar(neutral), CreateBar(negative)>>

\* _buildStatsCard(stats): the percentages are validated, then the bars are
\* built from them.
BuildStatsCard(stats) ==
  LET posPct == ValidateNumber(Default(stats.positive_pct, 0), 0, 0, 1000)
      neuPct == ValidateNumber(Default(stats.neutral_pct, 0), 0, 0, 1000)
      negPct == ValidateNumber(Default(stats.negative_pct, 0), 0, 0, 1000) IN
    BuildSentimentBars(posPct, neuPct, negPct)

NoRequest ==
  [route |-> "none", input |-> PlainInput, stage |-> "none", limited |-> FALSE,
   verified |-> FALSE, handled |-> FALSE, call |-> "none", sent |-> NoText,
   failed |-> FALSE, error |-> NoError, healthy |-> FALSE,
   score |-> NULL, alerts |-> 0, stats |-> NoStats, bars |-> <<>>,
   status |-> 0, body |-> "none"]

\* Both limiters' stores before the first request of a window: hits is what
\* the store counted; passed counts, for the general limiter, the requests it
\* let through, and for the analysis limiter the requests to a route that
\* can call analyzeMessage which reached their handler.
NewLimits ==
  [general |-> [hits |-> 0, passed |-> 0], analysis |-> [hits |-> 0, passed |-> 0]]

\* process.env.ADMIN_ALERT_CHANNEL: not set, or the name of a channel.
AdminChannels == {Unset, "admin-alerts"}

\* analysis.stress_score in the backend's answer to /analyze (0 to 10).
StressScores == {0, 6, 7, 10}
\* With the limiters or the process in view: one score.
PlainStressScores == {0}

\* The process when the module has been loaded: server is not assigned.
NewProcess ==
  [phase |-> "loaded", server |-> FALSE, configOk |-> FALSE, calledBackend |-> FALSE,
   exitCode |-> NULL, timers |-> {}, signals |-> 0, sinceSignal |-> 0,
   listeningAtSignal |-> FALSE, closed |-> FALSE, adminChannel |-> Unset]

ServiceInit ==
  /\ limits = NewLimits
  /\ req = NoRequest
  /\ proc = NewProcess

\* ------------------------------------------------------------ actions
ClientInit ==
  /\ baseURL \in BaseURLs
  /\ breaker = [circuitBreakerFailures |-> 0, circuitBreakerOpen |-> FALSE,
                circuitBreakerResetTime |-> NULL]
  /\ calls = [i \in Calls |-> IdleCall]
  /\ hist = [consec |-> 0, total |-> 0, http |-> FALSE, other |-> FALSE, calls |-> 0,
             probes |-> TRUE]

\* The client modelled in full, in a service that serves no request.
Init ==
  /\ ClientInit
  /\ InstancesInit
  /\ token = NoToken
  /\ ServiceInit

\* The service, with the verification token the environment gives it.
InitService ==
  /\ ClientInit
  /\ InstancesInit
  /\ token \in ConfiguredTokens
  /\ limits = NewLimits
  /\ req = NoRequest
  /\ proc \in {[NewProcess EXCEPT !.adminChannel = a] : a \in AdminChannels}

\* A caller invokes a typed operation; it runs up to _makeRequest's first
\* await. Calls are interchangeable: a new one takes the lowest free slot.
StartCall(i, op, payload, days) ==
  /\ calls[i].pc \in {"idle", "done"}
  /\ \A j \in Calls : j < i => calls[j].pc \notin {"idle", "done"}
  /\ IF op = "validateConfig" /\ BaseURLMissing(baseURL)
       THEN \* validateConfig throws before it calls healthCheck
            /\ calls' = [calls EXCEPT ![i] =
                           [IdleCall EXCEPT !.op = op, !.arg = Arg(op, payload, days),
                                            !.pc = "done",
                                            !.outcome = "threw",
                                            !.wrapped = NotConfigured]]
            /\ hist' = HistCall(hist)
            /\ UNCHANGED breaker
       ELSE IF op = "analyzeMessage" /\ payload.message = Unset
       THEN \* the log line before the try block throws
            /\ calls' = [calls EXCEPT ![i] =
                           [IdleCall EXCEPT !.op = op, !.arg = Arg(op, payload, days),
                                            !.pc = "done",
                                            !.outcome = "threw",
                                            !.cause = MissingMessageError]]
            /\ hist' = HistCall(hist)
            /\ UNCHANGED breaker
       ELSE LET r == MakeRequest([IdleCall EXCEPT !.op = op,
                                                    !.arg = Arg(op, payload, days)], 0) IN
              /\ calls' = [calls EXCEPT ![i] = r.call]
              /\ breaker' = r.breaker
              /\ hist' = HistCall(HistReset(hist, r.reset))
  /\ UNCHANGED <<baseURL, serviceVars>>

\* fetch resolves with the response headers: clearTimeout, then the
\* response.ok test.
Respond(i, status, raw) ==
  /\ calls[i].pc = "fetching"
  /\ baseURL # Unset
  /\ UNCHANGED <<baseURL, serviceVars>>
  /\ IF ResponseOk(status)
       THEN /\ calls' = [calls EXCEPT ![i] = [@ EXCEPT !.pc = "reading",
                                                     !.timer = NULL, !.body = raw]]
            /\ UNCHANGED <<breaker, hist>>
       ELSE \* _recordFailure(), throw, and the catch block's _recordFailure()
            /\ breaker' = RecordFailure(RecordFailure(breaker, now), now)
            /\ calls' = [calls EXCEPT ![i] = CatchBlock(@, HttpError(status))]
            /\ hist' = HistFailure(hist, calls[i].op, HttpError(status))

\* fetch rejects with a connection error.
FetchFail(i, code) ==
  /\ calls[i].pc = "fetching"
  /\ baseURL # Unset
  /\ breaker' = RecordFailure(breaker, now)
  /\ calls' = [calls EXCEPT ![i] = CatchBlock(@, NetworkError(code))]
  /\ hist' = HistFailure(hist, calls[i].op, NetworkError(code))
  /\ UNCHANGED <<baseURL, serviceVars>>

\* fetch rejects a URL that is not absolute, the baseURL being undefined.
FetchInvalid(i) ==
  /\ calls[i].pc = "fetching"
  /\ baseURL = Unset
  /\ breaker' = RecordFailure(breaker, now)
  /\ calls' = [calls EXCEPT ![i] = CatchBlock(@, InvalidUrlError)]
  /\ hist' = HistFailure(hist, calls[i].op, InvalidUrlError)
  /\ UNCHANGED <<baseURL, serviceVars>>

\* The abort timer fires while fetch is pending: fetch rejects with AbortError.
Timeout(i) ==
  /\ calls[i].pc = "fetching"
  /\ now >= calls[i].timer
  /\ baseURL # Unset
  /\ UNCHANGED <<baseURL, serviceVars>>
  /\ breaker' = RecordFailure(breaker, now)
  /\ calls' = [calls EXCEPT ![i] = CatchBlock(@, AbortError)]
  /\ hist' = HistFailure(hist, calls[i].op, AbortError)

\* response.json() settles.
ReadBody(i) ==
  /\ calls[i].pc = "reading"
  /\ UNCHANGED <<baseURL, serviceVars>>
  /\ IF JsonParses(calls[i].body)
       THEN /\ breaker' = RecordSuccess(breaker)
            /\ calls' = [calls EXCEPT ![i] = OpReturns(@, JsonParse(calls[i].body))]
            /\ hist' = HistSuccess(hist)
       ELSE /\ breaker' = RecordFailure(breaker, now)
            /\ calls' = [calls EXCEPT ![i] = CatchBlock(@, ParseError)]
            /\ hist' = HistFailure(hist, calls[i].op, ParseError)

\* _sleep resolves: the recursive _makeRequest(url, options, retryCount + 1).
Wake(i) ==
  /\ calls[i].pc = "sleeping"
  /\ now >= calls[i].timer
  /\ LET r == MakeRequest(calls[i], calls[i].retryCount + 1) IN
       /\ calls' = [calls EXCEPT ![i] = r.call]
       /\ breaker' = r.breaker
       /\ hist' = HistReset(hist, r.reset)
  /\ UNCHANGED <<baseURL, serviceVars>>

\* The timers that are set: abort timers of pending fetches and sleeps.
PendingTimers == {calls[i].timer : i \in {j \in Calls : calls[j].pc \in {"fetching", "sleeping"}}}

\* The instant at which an open breaker's timeout elapses, when still ahead.
PendingReset ==
  IF breaker.circuitBreakerOpen /\ breaker.circuitBreakerResetTime > now
    THEN {breaker.circuitBreakerResetTime}
    ELSE {}

Min(S) == CHOOSE x \in S : \A y \in S : x <= y

\* The time a for which an attempt has been pending, after d more
\* milliseconds. An age beyond the timeout is kept as timeout + 1: nothing
\* distinguishes the ages above it.
Older(a, d) == IF a + d > timeout THEN timeout + 1 ELSE a + d

\* A stored time t after d more milliseconds have passed. A time that is
\* not ahead any more is kept as the present instant: the code only tests
\* Date.now() >= t.
Later(t, d) == IF t = NULL THEN NULL ELSE IF t - d < now THEN now ELSE t - d

\* Time passes. A timer that is due fires before the clock moves on, and so
\* does the rejection of a URL that is not absolute.
Tick(d) ==
  /\ \A t \in PendingTimers : t > now
  /\ baseURL = Unset => \A i \in Calls : calls[i].pc # "fetching"
  /\ LET e == Min({d} \cup PendingTimers \cup PendingReset) IN
       /\ breaker' = [breaker EXCEPT !.circuitBreakerResetTime = Later(@, e)]
       /\ calls' = [i \in Calls |->
                      [calls[i] EXCEPT !.timer = Later(@, e),
                                       !.age = IF calls[i].pc \in {"fetching", "reading"}
                                                 THEN Older(@, e) ELSE @]]
  /\ UNCHANGED <<baseURL, hist, serviceVars>>

\* The steps of the client with its calls in the slots C and the callers'
\* and the backend's choices drawn from the other sets.
NextOver(C, O, P, D, S, R, N, T) ==
  \/ \E i \in C, op \in O :
       \E payload \in (IF op = "analyzeMessage" THEN P ELSE {CHOOSE p \in P : TRUE}) :
         \E days \in (IF op = "getTrends" THEN D ELSE {CHOOSE d \in D : TRUE}) :
           StartCall(i, op, payload, days)
  \/ \E i \in C : \E status \in S :
       \E raw \in (IF ResponseOk(status) THEN R ELSE {"none"}) : Respond(i, status, raw)
  \/ \E i \in C, code \in N : FetchFail(i, code)
  \/ \E i \in C : FetchInvalid(i)
  \/ \E i \in C : Timeout(i)
  \/ \E i \in C : ReadBody(i)
  \/ \E i \in C : Wake(i)
  \/ \E d \in T : Tick(d)

\* Overlapping calls on one client.
Next ==
  NextOver(Calls, OverlapOps, OverlapPayloads, OverlapDays, OverlapStatuses, OverlapRawBodies,
           OverlapNetworkCodes, OverlapTickSteps)

Spec == Init /\ [][Next]_vars

\* One call at a time, with every operation, answer and failure kind.
NextSeq == NextOver({1}, Ops, Payloads, Days, Statuses, RawBodies, NetworkCodes, TickSteps)

SpecSeq == Init /\ [][NextSeq]_vars

\* The pending HTTP attempt of call i settles: fetch resolves or rejects, the
\* abort timer fires, or the reading of the body settles.
AttemptSettles(i) ==
  \/ \E status \in Statuses :
       \E raw \in (IF ResponseOk(status) THEN RawBodies ELSE {"none"}) :
         Respond(i, status, raw)
  \/ \E code \in NetworkCodes : FetchFail(i, code)
  \/ FetchInvalid(i)
  \/ Timeout(i)
  \/ ReadBody(i)

\* One call at a time, where every HTTP attempt settles, a sleep that is over
\* resolves, and time does not stop.
SpecSeqFair ==
  /\ SpecSeq
  /\ WF_vars(AttemptSettles(1))
  /\ WF_vars(Wake(1))
  /\ WF_vars(\E d \in TickSteps : Tick(d))

\* ------------------------------------------------------------ several clients
\* The breaker's side of _makeRequest on each instance: the check that
\* starts an attempt or rejects, and the record made when an attempt ends.

\* A call on the owner's client runs _checkCircuitBreaker and, when it
\* passes, starts its HTTP attempt.
ClientAttempt(owner) ==
  LET k == ClientOf(owner)
      chk == CheckCircuitBreaker(instances[k].breaker, now) IN
    /\ instances[k].pending < MaxPending
    /\ instances' = [instances EXCEPT ![k] =
                       [breaker |-> chk.breaker,
                        pending |-> IF chk.ok THEN @.pending + 1 ELSE @.pending]]
    /\ actor' = owner
    /\ UNCHANGED <<baseURL, breaker, calls, hist, token, limits, req, proc>>

\* An attempt on the owner's client fails: _recordFailure runs once, and a
\* second time for a non-2xx answer.
ClientFailure(owner, http) ==
  LET k == ClientOf(owner)
      once == RecordFailure(instances[k].breaker, now) IN
    /\ instances[k].pending > 0
    /\ instances' = [instances EXCEPT ![k] =
                       [breaker |-> IF http THEN RecordFailure(once, now) ELSE once,
                        pending |-> @.pending - 1]]
    /\ actor' = owner
    /\ UNCHANGED <<baseURL, breaker, calls, hist, token, limits, req, proc>>

\* An attempt on the owner's client succeeds: _recordSuccess.
ClientSuccess(owner) ==
  LET k == ClientOf(owner) IN
    /\ instances[k].pending > 0
    /\ instances' = [instances EXCEPT ![k] =
                       [breaker |-> RecordSuccess(@.breaker),
                        pending |-> @.pending - 1]]
    /\ actor' = owner
    /\ UNCHANGED <<baseURL, breaker, calls, hist, token, limits, req, proc>>

\* Time passes for every instance.
ClientTick(d) ==
  /\ instances' = [k \in Instances |->
                     [instances[k] EXCEPT
                        !.breaker.circuitBreakerResetTime = Later(@, d)]]
  /\ actor' = "clock"
  /\ UNCHANGED <<baseURL, breaker, calls, hist, token, limits, req, proc>>

NextInstances ==
  \/ \E owner \in Owners : ClientAttempt(owner)
  \/ \E owner \in Owners, http \in BOOLEAN : ClientFailure(owner, http)
  \/ \E owner \in Owners : ClientSuccess(owner)
  \/ \E d \in OverlapTickSteps : ClientTick(d)

\* The three clients of the service side by side.
SpecInstances == Init /\ [][NextInstances]_vars

\* A call on the server routes' client runs _checkCircuitBreaker and, when
\* it passes, starts its HTTP attempt beside those already in flight.
OverlapAttempt ==
  LET k == ClientOf("server")
      chk == CheckCircuitBreaker(instances[k].breaker, now) IN
    /\ instances[k].pending < MaxOverlap
    /\ instances' = [instances EXCEPT ![k] =
                       [breaker |-> chk.breaker,
                        pending |-> IF chk.ok THEN @.pending + 1 ELSE @.pending]]
    /\ actor' = "server"
    /\ UNCHANGED <<baseURL, breaker, calls, hist, token, limits, req, proc>>

NextOverlap ==
  \/ OverlapAttempt
  \/ \E http \in BOOLEAN : ClientFailure("server", http)
  \/ ClientSuccess("server")
  \/ \E d \in TickSteps : ClientTick(d)

\* The server routes' client with several attempts in flight.
SpecOverlap == Init /\ [][NextOverlap]_vars

\* ------------------------------------------------------------ the webhook handler
\* JavaScript's !token: true of undefined and of the empty string.
Falsy(t) == ~t.set \/ t.bytes = <<>>

\* crypto.timingSafeEqual on two buffers of equal length.
TimingSafeEqual(a, b) == \A i \in 1..Len(a) : a[i] = b[i]

VerifyRequestLengthOnly(configured, header) ==
  IF Falsy(configured) THEN TRUE
  ELSE IF Falsy(header) THEN FALSE
  ELSE Len(configured.bytes) = Len(header.bytes)

\* BotWebhookHandler._verifyRequest(req).
VerifyRequest(configured, header) ==
  IF Falsy(configured) THEN TRUE
  ELSE IF Falsy(header) THEN FALSE
  ELSE IF Len(configured.bytes) # Len(header.bytes) THEN FALSE
  ELSE TimingSafeEqual(configured.bytes, header.bytes)

\* text.trim().
Trim(text) == [text EXCEPT !.length = text.trimmed]

CatchTextLeaks(route, error) == error.code

\* The text each handler's catch block answers with.
CatchText(route, error) ==
  CASE route = "/bot/webhook" -> "Analysis temporarily unavailable. Please try again."
    [] route = "/commands/team-mood" ->
         "Unable to fetch team mood data. Please try again or contact support."
    [] route = "/actions/analyze" -> "Analysis failed. Please try again."
    [] route = "/actions/suggest-reply" -> "Unable to generate suggestion. Please try again."
    [] OTHER -> "Internal server error"

\* res.status(status).json(body) on request r.
Answer(r, status, body) ==
  [r EXCEPT !.stage = "answered", !.status = status, !.body = body]

\* Request r waits for the typed operation op that its handler called.
Await(r, op, sent) == [r EXCEPT !.stage = "awaiting", !.call = op, !.sent = sent]

HandleMessageAnalysesBots(r) ==
  LET text == r.input.text IN
    IF text.kind = "missing" THEN Answer(r, 200, "")
    ELSE IF text.kind = "number"
      THEN Answer(r, 500, CatchText(r.route, TypeError))
    ELSE IF text.trimmed = 0 THEN Answer(r, 200, "")
    ELSE IF text.length > MaxMessageLength
      THEN Answer(r, 200, "Message too long for analysis (max 5000 chars)")
    ELSE Await(r, "analyzeMessage", text)

\* BotWebhookHandler._handleMessage(event) up to its await.
HandleMessage(r) ==
  LET text == r.input.text IN
    IF text.kind = "missing" THEN Answer(r, 200, "")
    ELSE IF text.kind = "number"
      THEN \* message.trim is not a function: handleWebhook's catch
           Answer(r, 500, CatchText(r.route, TypeError))
    ELSE IF text.trimmed = 0 \/ r.input.isBot THEN Answer(r, 200, "")
    ELSE IF text.length > MaxMessageLength
      THEN Answer(r, 200, "Message too long for analysis (max 5000 chars)")
    ELSE Await(r, "analyzeMessage", text)

\* BotWebhookHandler._handleMention(event) up to its await.
HandleMention(r) ==
  LET text == r.input.text IN
    IF text.kind = "missing" THEN HandleMessage(r)
    ELSE IF text.kind = "number"
      THEN \* message.replace is not a function: handleWebhook's catch
           Answer(r, 500, CatchText(r.route, TypeError))
    ELSE IF Contains(text, "help") THEN Answer(r, 200, "Emo-Bot Help")
    ELSE IF Contains(text, "status") THEN Await(r, "healthCheck", NoText)
    ELSE HandleMessage(r)

\* BotWebhookHandler.handleWebhook(req, res) up to its await.
HandleWebhook(r) ==
  IF ~VerifyRequest(token, r.input.header)
    THEN Answer(r, 401, "Unauthorized")
    ELSE LET v == [r EXCEPT !.verified = TRUE, !.handled = TRUE] IN
           CASE r.input.type = "message" -> HandleMessage(v)
             [] r.input.type = "bot_mention" -> HandleMention(v)
             [] r.input.type = "participant_joined" -> Answer(v, 200, "Welcome")
             [] OTHER -> Answer(v, 200, "Event received")

\* ------------------------------------------------------------ the routes
HandleActionNoLengthCheck(r) ==
  LET text == r.input.text IN
    IF text.kind # "string" \/ text.trimmed = 0
      THEN Answer(r, 400, "No message text provided")
    ELSE Await([r EXCEPT !.handled = TRUE], "analyzeMessage", Trim(text))

\* POST /actions/analyze and POST /actions/suggest-reply up to their await.
HandleAction(r) ==
  LET text == r.input.text IN
    IF text.kind # "string" \/ text.trimmed = 0
      THEN Answer(r, 400, "No message text provided")
    ELSE IF text.length > MaxMessageLength
      THEN Answer(r, 400, "Message too long (max 5000 chars)")
    ELSE Await([r EXCEPT !.handled = TRUE], "analyzeMessage", Trim(text))

\* The handler of r's route up to its first await.
Handle(r) ==
  CASE r.route = "/bot/webhook" -> HandleWebhook(r)
    [] r.route \in {"/actions/analyze", "/actions/suggest-reply"} -> HandleAction(r)
    [] r.route = "/commands/team-mood" ->
         Await([r EXCEPT !.handled = TRUE], "getTodayStats", NoText)
    [] r.route = "/health" -> Await([r EXCEPT !.handled = TRUE], "healthCheck", NoText)
    [] OTHER -> Answer([r EXCEPT !.handled = TRUE], 200, "Zoho Cliq Extension - Sentiment Analysis Bot")

HealthStatusCodeAlwaysOk(status) == 200

\* GET /health: statusCode = health.status === 'healthy' ? 200 : 503.
HealthStatusCode(status) == IF status = "healthy" THEN 200 ELSE 503

\* BotWebhookHandler._sendAdminAlert(analysis, userId, channelId): the
\* number of messages it sends to the admin channel. It returns when no
\* channel is configured, and otherwise logs the alert and sends nothing.
SendAdminAlert(adminChannel, score) ==
  IF adminChannel = Unset THEN 0 ELSE 0

\* The rest of _handleMessage, when analyzeMessage has returned an analysis
\* with stress_score = score: the card, after the alert when the score
\* reaches the threshold.
AnalysisCard(r, adminChannel, score) ==
  Answer([r EXCEPT !.score = score,
                   !.alerts = IF score >= stressThreshold
                                THEN SendAdminAlert(adminChannel, score) ELSE 0],
         200, "Analysis card")

\* The rest of r's handler, when the typed operation it awaits has ended as
\* the call record d says, an analysis carries stress_score = score and a
\* stats object the percentages of stats.
Reply(r, d, adminChannel, score, stats) ==
  LET threw == d.outcome = "threw"
      error == IF d.cause # NoError THEN d.cause ELSE d.error
      e == [r EXCEPT !.error = error]
      fail == [e EXCEPT !.failed = TRUE] IN
  CASE r.call = "healthCheck" /\ r.route = "/health" ->
         LET status == IF ~threw /\ d.healthy THEN "healthy" ELSE "degraded" IN
           Answer([e EXCEPT !.healthy = d.healthy, !.failed = ~d.healthy],
                  HealthStatusCode(status), status)
    [] r.call = "healthCheck" /\ r.route # "/health" ->
         IF threw THEN Answer(fail, 500, CatchText(r.route, error))
         ELSE Answer([e EXCEPT !.healthy = d.healthy, !.failed = ~d.healthy], 200,
                     IF d.healthy THEN "Backend is healthy and ready!"
                                  ELSE "Backend is not responding")
    [] r.call = "getTodayStats" ->
         \* _buildStatsCard throws on a value that is no object
         IF threw \/ d.value.type # "object"
           THEN Answer(fail, 200, CatchText(r.route, error))
           ELSE LET bars == BuildStatsCard(stats)
                    built == [e EXCEPT !.stats = stats, !.bars = bars] IN
                  IF \E k \in 1..Len(bars) : bars[k].threw
                    THEN Answer([built EXCEPT !.failed = TRUE], 200,
                                CatchText(r.route, TypeError))
                    ELSE Answer(built, 200, "Team Mood Report")
    [] OTHER ->
         IF threw
           THEN Answer(fail, IF r.route = "/bot/webhook" THEN 500 ELSE 200,
                       CatchText(r.route, error))
         ELSE IF r.route = "/bot/webhook"
           THEN IF d.value.type # "object"
                  THEN \* _buildAnalysisCard reads a property of null
                       Answer([fail EXCEPT !.error = TypeError], 500,
                              CatchText(r.route, TypeError))
                  ELSE AnalysisCard(e, adminChannel, score)
         ELSE Answer(e, 200, "Analysis card")

\* ------------------------------------------------------------ the rate limiters
\* The routes whose handler can call analyzeMessage.
AnalyzeRoutes == {"/bot/webhook", "/actions/analyze", "/actions/suggest-reply"}

AnalysisLimitedActionsOnly(route) ==
  route \in {"/actions/analyze", "/actions/suggest-reply"}

\* The routes registered with analysisLimiter; generalLimiter is on all.
AnalysisLimited(route) ==
  route \in {"/bot/webhook", "/actions/analyze", "/actions/suggest-reply"}

\* ------------------------------------------------------------ the process
clientVars == <<baseURL, breaker, calls, hist, instances, actor, token>>

\* process.exit(code).
Exit(p, code) == [p EXCEPT !.phase = "exited", !.exitCode = code, !.timers = {}]

\* How a typed operation that the service awaits can end: _makeRequest
\* throws one of its errors or returns a parsed body.
Ends ==
  {[error |-> e, result |-> NoValue] :
     e \in {AbortError, NetworkError("ECONNREFUSED"), HttpError(503), HttpError(404),
            ParseError, CircuitOpenError}}
    \cup {[error |-> NoError, result |-> v] :
            v \in {JsonObject("healthy"), JsonObject("down"), JsonNull}}

\* With the limiters in view: a refused connection, or a healthy answer.
PlainEnds ==
  {[error |-> NetworkError("ECONNREFUSED"), result |-> NoValue],
   [error |-> NoError, result |-> JsonObject("healthy")]}

\* The typed operation op of the routes' client, ended.
Ended(op, end) ==
  IF end.error = NoError
    THEN OpReturns([IdleCall EXCEPT !.op = op], end.result)
    ELSE OpThrows([IdleCall EXCEPT !.op = op], end.error)

StartServerListensAnyway(p, url) ==
  [p EXCEPT !.phase = "validating", !.calledBackend = TRUE]

\* startServer() up to validateSetup's await: exit when BACKEND_API_URL is
\* not set, else the call of validateConfig.
StartServer(p, url) ==
  IF BaseURLMissing(url)
    THEN Exit(p, 1)
    ELSE [p EXCEPT !.phase = "validating", !.calledBackend = TRUE]

\* The module has been loaded and runs startServer().
Start ==
  /\ proc.phase = "loaded"
  /\ proc' = StartServer(proc, baseURL)
  /\ UNCHANGED <<clientVars, limits, req>>

\* validateConfig ends: validateSetup logs the outcome and startServer
\* goes on to app.listen.
ValidateConfigEnds(end) ==
  /\ proc.phase = "validating"
  /\ proc' = [proc EXCEPT !.phase = "listening", !.server = TRUE,
                          !.configOk = Ended("validateConfig", end).outcome = "returned"]
  /\ UNCHANGED <<clientVars, limits, req>>

\* A request of the client arrives and runs through the limiters and its
\* handler up to the handler's first await.
Request(route, input, cap, analysisCap) ==
  /\ proc.phase = "listening"
  /\ req.stage # "awaiting"
  /\ limits.general.hits < cap
  /\ AnalysisLimited(route) => limits.analysis.hits < analysisCap
  /\ LET r == [NoRequest EXCEPT !.route = route, !.input = input]
         g == limits.general.hits + 1
         a == IF g <= generalMax /\ AnalysisLimited(route)
                THEN limits.analysis.hits + 1 ELSE limits.analysis.hits
         limited == g > generalMax \/ (AnalysisLimited(route) /\ a > analysisMax) IN
       /\ limits' =
            [general |-> [hits |-> g,
                          passed |-> IF g > generalMax
                                       THEN limits.general.passed
                                       ELSE limits.general.passed + 1],
             analysis |-> [hits |-> a,
                           passed |-> IF ~limited /\ route \in AnalyzeRoutes
                                        THEN limits.analysis.passed + 1
                                        ELSE limits.analysis.passed]]
       /\ req' = IF limited
                   THEN Answer([r EXCEPT !.limited = TRUE], 429,
                               IF g > generalMax
                                 THEN "Too many requests. Please slow down."
                                 ELSE "Analysis rate limit exceeded. Wait 1 minute.")
                   ELSE Handle(r)
  /\ UNCHANGED <<clientVars, proc>>

\* The typed operation that the request's handler awaits ends.
Settle(end, score, stats) ==
  /\ proc.phase \in {"listening", "closing"}
  /\ req.stage = "awaiting"
  /\ req' = Reply(req, Ended(req.call, end), proc.adminChannel, score, stats)
  /\ UNCHANGED <<clientVars, limits, proc>>

\* A limiter's window of the client ends: its store forgets the client.
WindowEnds(which) ==
  /\ proc.phase = "listening"
  /\ limits[which].hits > 0
  /\ limits' = [limits EXCEPT ![which] = [hits |-> 0, passed |-> 0]]
  /\ UNCHANGED <<clientVars, req, proc>>

GracefulShutdownNoTimer(p) ==
  IF p.server
    THEN [p EXCEPT !.phase = "closing", !.signals = @ + 1,
                   !.listeningAtSignal = IF p.signals = 0 THEN TRUE ELSE @]
    ELSE [Exit(p, 0) EXCEPT !.signals = @ + 1]

\* gracefulShutdown(signal): close the server and set the forced-exit
\* timer, or exit at once when server is not assigned.
GracefulShutdown(p) ==
  IF p.server
    THEN [p EXCEPT !.phase = "closing", !.signals = @ + 1,
                   !.timers = @ \cup {now + shutdownTimeout},
                   !.listeningAtSignal = IF p.signals = 0 THEN TRUE ELSE @]
    ELSE [Exit(p, 0) EXCEPT !.signals = @ + 1]

\* SIGTERM or SIGINT reaches the process.
Signal ==
  /\ proc.phase \in {"validating", "listening", "closing"}
  /\ proc.signals < MaxSignals
  /\ proc' = GracefulShutdown(proc)
  /\ UNCHANGED <<clientVars, limits, req>>

\* The HTTP server has closed: the callback of server.close exits.
ServerClosed ==
  /\ proc.phase = "closing"
  /\ req.stage # "awaiting"
  /\ proc' = [Exit(proc, 0) EXCEPT !.closed = TRUE]
  /\ UNCHANGED <<clientVars, limits, req>>

\* A forced-exit timer fires.
ForcedExit ==
  /\ proc.phase = "closing"
  /\ now \in proc.timers
  /\ proc' = Exit(proc, 1)
  /\ UNCHANGED <<clientVars, limits, req>>

\* The time since the first signal, counted up to just past the timeout.
Since(a, d) == IF a + d > shutdownTimeout THEN shutdownTimeout + 1 ELSE a + d

\* Time passes while the server is closing; a timer that is due fires first.
Elapse(d) ==
  /\ proc.phase = "closing"
  /\ \A t \in proc.timers : t > now
  /\ LET e == Min({d} \cup proc.timers) IN
       proc' = [proc EXCEPT !.timers = {Later(t, e) : t \in @},
                            !.sinceSignal = Since(@, e)]
  /\ UNCHANGED <<clientVars, limits, req>>

\* The service serving requests with every input.
NextService ==
  \/ Start
  \/ \E end \in Ends : ValidateConfigEnds(end)
  \/ \E route \in Routes : \E input \in Inputs(route) : Request(route, input, ServiceHits, ServiceHits)
  \/ \E end \in Ends : \E score \in StressScores : \E stats \in PlainStats :
       Settle(end, score, stats)
  \/ \E which \in {"general", "analysis"} : WindowEnds(which)

SpecService == InitService /\ [][NextService]_vars

\* The service serving /team-mood with every stats object.
NextTeamMood ==
  \/ Start
  \/ \E end \in PlainEnds : ValidateConfigEnds(end)
  \/ Request("/commands/team-mood", PlainInput, ServiceHits, ServiceHits)
  \/ \E end \in Ends : \E score \in PlainStressScores : \E stats \in StatsResults :
       Settle(end, score, stats)
  \/ WindowEnds("general")

SpecTeamMood == Init /\ [][NextTeamMood]_vars

\* The service with plain requests, up to the limits of the limiters.
NextLimiter ==
  \/ Start
  \/ \E end \in Ends : ValidateConfigEnds(end)
  \/ \E route \in Routes : \E input \in PlainInputs(route) :
       Request(route, input, LimiterHits, LimiterAnalysisHits)
  \/ \E end \in PlainEnds : \E score \in PlainStressScores : \E stats \in PlainStats :
       Settle(end, score, stats)
  \/ \E which \in {"general", "analysis"} : WindowEnds(which)

SpecLimiter == Init /\ [][NextLimiter]_vars

\* The process from start-up to exit, serving plain requests.
NextProcess ==
  \/ Start
  \/ \E end \in Ends : ValidateConfigEnds(end)
  \/ \E route \in Routes : \E input \in PlainInputs(route) :
       Request(route, input, ServiceHits, ServiceHits)
  \/ \E end \in Ends : \E score \in PlainStressScores : \E stats \in PlainStats :
       Settle(end, score, stats)
  \/ \E which \in {"general", "analysis"} : WindowEnds(which)
  \/ Signal
  \/ ServerClosed
  \/ ForcedExit
  \/ \E d \in ShutdownTickSteps : Elapse(d)

SpecProcess == Init /\ [][NextProcess]_vars

\* The event loop runs timers that are due, and time does not stop.
SpecShutdown ==
  SpecProcess /\ WF_vars(ForcedExit) /\ WF_vars(\E d \in ShutdownTickSteps : Elapse(d))

\* ------------------------------------------------------------ steps
\* What a step did to call i, read off the call's record before and after.

\* A caller started a typed operation in slot i.
CallStarted(i) ==
  calls[i].pc \in {"idle", "done"} /\ calls'[i] # calls[i]

\* Call i ran _makeRequest up to its breaker check (a new call, or a retry
\* after its sleep).
CheckRan(i) ==
  calls[i].pc \in {"idle", "done", "sleeping"} /\ calls'[i] # calls[i]
    /\ calls'[i].pc \in {"fetching", "done"}

\* The step started an HTTP attempt of call i.
AttemptIssued(i) ==
  calls[i].pc \in {"idle", "done", "sleeping"} /\ calls'[i].pc = "fetching"

\* The breaker rejected call i: no HTTP attempt was started.
Rejected(i) ==
  /\ calls[i].pc \in {"idle", "done", "sleeping"}
  /\ calls'[i].pc = "done"
  /\ calls'[i].error = CircuitOpenError
  /\ calls'[i].attempts = (IF calls[i].pc = "sleeping" THEN calls[i].attempts ELSE 0)

\* An HTTP attempt of call i ended in failure.
AttemptFailed(i) ==
  /\ calls[i].pc \in {"fetching", "reading"}
  /\ \/ calls'[i].pc = "sleeping"
     \/ calls'[i].pc = "done" /\ calls'[i].error # NoError

\* An HTTP attempt of call i ended in success.
AttemptSucceeded(i) ==
  calls[i].pc = "reading" /\ calls'[i].pc = "done" /\ calls'[i].error = NoError

\* The breaker rejects calls: the open flag is set and the reset time is ahead.
Rejecting ==
  breaker.circuitBreakerOpen /\ now < breaker.circuitBreakerResetTime

\* now < open-until, for a reset time that may still be null.
BeforeOpenUntil ==
  breaker.circuitBreakerResetTime # NULL /\ now < breaker.circuitBreakerResetTime

\* ------------------------------------------------------------ claims

\* C1: after circuitBreakerThreshold consecutive failed HTTP attempts with no
\* success in between, the breaker is open until the time of the last of
\* them + circuitBreakerTimeout, and a typed operation called before then
\* fails with the circuit-open error without an HTTP attempt.
C1_OpenAfterThresholdFailures ==
  [][ /\ (hist.consec < circuitBreakerThreshold
          /\ hist'.consec >= circuitBreakerThreshold)
        => (/\ breaker'.circuitBreakerOpen
            /\ breaker'.circuitBreakerResetTime = now + circuitBreakerTimeout)
      /\ \A i \in Calls :
           (CallStarted(i) /\ hist.consec >= circuitBreakerThreshold /\ BeforeOpenUntil)
             => Rejected(i) /\ calls'[i].attempts = 0 ]_vars

\* A call was rejected after the threshold of consecutive failures.
C1_Witness ==
  /\ hist.consec >= circuitBreakerThreshold
  /\ BeforeOpenUntil
  /\ \E i \in Calls :
       /\ calls[i].pc = "done"
       /\ calls[i].error = CircuitOpenError
       /\ calls[i].attempts = 0

\* C2: every failed HTTP attempt, whatever its failure kind and whether or
\* not it is retried, increases circuitBreakerFailures by exactly 1.
C2_FailureCountsOnce ==
  [][ \A i \in Calls :
        AttemptFailed(i)
          => breaker'.circuitBreakerFailures = breaker.circuitBreakerFailures + 1 ]_vars

\* C3: on a fresh client, while fewer than circuitBreakerThreshold HTTP
\* attempts have failed the breaker is closed.
C3_ClosedBelowThreshold ==
  hist.total < circuitBreakerThreshold => ~breaker.circuitBreakerOpen

C5_ProbeSuccessCloses ==
  [][ \A i \in Calls :
        /\ (CheckRan(i) /\ breaker.circuitBreakerOpen
               /\ now >= breaker.circuitBreakerResetTime)
             => (/\ AttemptIssued(i)
                 /\ ~breaker'.circuitBreakerOpen
                 /\ breaker'.circuitBreakerFailures = 0)
        /\ (AttemptSucceeded(i) /\ calls[i].probe /\ ~hist.http)
             => /\ ~breaker'.circuitBreakerOpen
                /\ breaker'.circuitBreakerFailures = 0 ]_vars

\* C5 amended: a call (or retry) that starts with the breaker open and now >=
\* open-until closes it, zeroes the counter and issues an HTTP attempt; when
\* that attempt succeeds the counter is 0 afterwards and the open flag and
\* open-until are left as they were just before the success: the breaker is
\* closed unless failures of overlapping calls re-opened it meanwhile.
C5_ProbeSuccessZeroesCounter ==
  [][ \A i \in Calls :
        /\ (CheckRan(i) /\ breaker.circuitBreakerOpen
               /\ now >= breaker.circuitBreakerResetTime)
             => (/\ AttemptIssued(i)
                 /\ calls'[i].probe
                 /\ ~breaker'.circuitBreakerOpen
                 /\ breaker'.circuitBreakerFailures = 0)
        /\ (AttemptSucceeded(i) /\ calls[i].probe)
             => /\ breaker'.circuitBreakerFailures = 0
                /\ breaker'.circuitBreakerOpen = breaker.circuitBreakerOpen
                /\ breaker'.circuitBreakerResetTime = breaker.circuitBreakerResetTime ]_vars

\* A probe has succeeded and the breaker is closed with counter 0.
C5_Witness ==
  /\ ~breaker.circuitBreakerOpen
  /\ breaker.circuitBreakerFailures = 0
  /\ \E i \in Calls :
       /\ calls[i].pc = "done"
       /\ calls[i].probe
       /\ calls[i].error = NoError
       /\ calls[i].result # NoValue

\* C6: a call, or a retry, that runs its breaker check while the breaker is
\* open and now < open-until ends with the circuit-open error, without an
\* HTTP attempt and without a retry, and leaves the failure counter, the
\* open flag and open-until unchanged.
C6_RejectionLeavesBreaker ==
  [][ \A i \in Calls :
        (CheckRan(i) /\ Rejecting) => (Rejected(i) /\ breaker' = breaker) ]_vars

\* A typed operation has thrown the wrapped circuit-open error while the
\* breaker rejects calls.
C6_Witness ==
  /\ Rejecting
  /\ \E i \in Calls :
       /\ calls[i].pc = "done"
       /\ calls[i].outcome = "threw"
       /\ calls[i].cause = CircuitOpenError

\* C7 as stated: the breaker rejects calls if and only if the failure
\* counter is >= circuitBreakerThreshold and now < open-until. Stated for
\* runs in which no attempt was answered with a non-2xx status, so that the
\* double count of C2 takes no part in it.
C7_RejectingIffCounterAtThreshold ==
  ~hist.http =>
    (Rejecting <=>
       (breaker.circuitBreakerFailures >= circuitBreakerThreshold /\ BeforeOpenUntil))

\* C7 amended: whenever the failure counter is >= circuitBreakerThreshold the
\* open flag is set, and the breaker rejects calls exactly while now <
\* open-until; the counter itself may be below the threshold while the
\* breaker rejects (a success of an overlapping call zeroes it).
C7_CounterAtThresholdImpliesOpen ==
  /\ (breaker.circuitBreakerFailures >= circuitBreakerThreshold
       => breaker.circuitBreakerOpen)
  /\ (breaker.circuitBreakerOpen => breaker.circuitBreakerResetTime # NULL)
  /\ (Rejecting <=> BeforeOpenUntil)

\* The breaker rejects calls with its counter at or above the threshold.
C7_Witness ==
  Rejecting /\ breaker.circuitBreakerFailures >= circuitBreakerThreshold

\* C8: the open flag goes from unset to set only in a step that records a
\* failed attempt and takes the counter from below circuitBreakerThreshold
\* to it or above; every such step sets it, with open-until = now +
\* circuitBreakerTimeout; and in every reachable state one more
\* _recordFailure() opens a closed breaker exactly when it makes the counter
\* equal to the threshold.
C8_OpensExactlyAtThreshold ==
  /\ [](LET r == RecordFailure(breaker, now) IN
          ~breaker.circuitBreakerOpen
            => /\ (r.circuitBreakerOpen
                    <=> breaker.circuitBreakerFailures + 1 = circuitBreakerThreshold)
               /\ (r.circuitBreakerOpen
                    => r.circuitBreakerResetTime = now + circuitBreakerTimeout))
  /\ [][ /\ (~breaker.circuitBreakerOpen /\ breaker'.circuitBreakerOpen)
              => (/\ \E i \in Calls : AttemptFailed(i)
                  /\ breaker.circuitBreakerFailures < circuitBreakerThreshold
                  /\ breaker'.circuitBreakerFailures >= circuitBreakerThreshold
                  /\ breaker'.circuitBreakerResetTime = now + circuitBreakerTimeout)
         /\ (breaker.circuitBreakerFailures < circuitBreakerThreshold
              /\ breaker'.circuitBreakerFailures >= circuitBreakerThreshold)
              => (/\ breaker'.circuitBreakerOpen
                  /\ breaker'.circuitBreakerResetTime = now + circuitBreakerTimeout) ]_vars

\* The breaker has just opened with the counter at the threshold.
C8_Witness ==
  /\ breaker.circuitBreakerOpen
  /\ breaker.circuitBreakerFailures = circuitBreakerThreshold
  /\ breaker.circuitBreakerResetTime = now + circuitBreakerTimeout
  /\ hist.consec = circuitBreakerThreshold

\* C9: when an HTTP attempt succeeds, _makeRequest returns the parsed body,
\* the failure counter is 0 afterwards whatever it was, the open flag and
\* open-until are untouched, and a breaker whose counter was 0 is unchanged.
C9_SuccessZeroesCounter ==
  [][ \A i \in Calls :
        AttemptSucceeded(i)
          => /\ calls'[i].result = JsonParse(calls[i].body)
             /\ calls'[i].result # NoValue
             /\ breaker'.circuitBreakerFailures = 0
             /\ breaker'.circuitBreakerOpen = breaker.circuitBreakerOpen
             /\ breaker'.circuitBreakerResetTime = breaker.circuitBreakerResetTime
             /\ (breaker.circuitBreakerFailures = 0 => breaker' = breaker) ]_vars

\* A call has returned its body after failures below the threshold, and the
\* counter is 0.
C9_Witness ==
  /\ breaker.circuitBreakerFailures = 0
  /\ hist.total > 0
  /\ hist.consec = 0
  /\ ~breaker.circuitBreakerOpen
  /\ \E i \in Calls :
       /\ calls[i].pc = "done"
       /\ calls[i].outcome = "returned"
       /\ calls[i].value = JsonObject("healthy")

\* C10: one call of analyzeMessage issues at most one HTTP attempt, whatever
\* the failure.
C10_AnalyzeAttemptedOnce ==
  \A i \in Calls : calls[i].op = "analyzeMessage" => calls[i].attempts <= 1

\* analyzeMessage has failed on an HTTP 5xx answer after its one attempt.
C10_Witness ==
  \E i \in Calls :
    /\ calls[i].op = "analyzeMessage"
    /\ calls[i].pc = "done"
    /\ calls[i].error = HttpError(503)
    /\ calls[i].attempts = 1

\* The read-only typed operations.
ReadOnlyOps == {"getTodayStats", "getTrends", "healthCheck"}

\* C11: one call of a read-only operation issues at most maxRetries + 1 HTTP
\* attempts, whatever the failures, and its retry count never passes
\* maxRetries.
C11_ReadOnlyAttemptsBounded ==
  \A i \in Calls :
    calls[i].op \in ReadOnlyOps
      => /\ calls[i].attempts <= maxRetries + 1
         /\ calls[i].retryCount <= maxRetries
         /\ calls[i].attempts <= calls[i].retryCount + 1

\* A read-only call has failed on its last allowed attempt, the fourth.
C11_Witness ==
  \E i \in Calls :
    /\ calls[i].op \in ReadOnlyOps
    /\ calls[i].pc = "done"
    /\ calls[i].attempts = maxRetries + 1
    /\ calls[i].error = AbortError

\* The failures C12 names as retried: a timeout/abort, a refused or reset
\* connection, an HTTP 5xx answer.
C12_NamedFailure(error) ==
  \/ error = AbortError
  \/ error \in {NetworkError("ETIMEDOUT"), NetworkError("ECONNREFUSED"),
                NetworkError("ECONNRESET")}
  \/ (error.code = "HTTP" /\ error.status >= 500 /\ error.status <= 599)

\* C12: after a failed attempt of a read-only call a retry follows if and
\* only if the failure is a timeout/abort, a refused or reset connection or
\* an HTTP 5xx answer, and fewer than maxRetries retries have been made.
C12_RetryIffNamedFailure ==
  [][ \A i \in Calls :
        (AttemptFailed(i) /\ calls[i].op \in ReadOnlyOps)
          => (calls'[i].pc = "sleeping"
                <=> (C12_NamedFailure(calls'[i].error)
                       /\ calls[i].retryCount < maxRetries)) ]_vars

\* The typed operation of call record c has ended on error, thrown by
\* _makeRequest: healthCheck returned false, validateConfig raised its
\* not-responding error, the others raised their wrapped error with error
\* as the cause.
EndedOn(c, error) ==
  /\ c.pc = "done"
  /\ c.error = error
  /\ CASE c.op = "healthCheck" -> c.outcome = "returned" /\ ~c.healthy
       [] c.op = "validateConfig" ->
            c.outcome = "threw" /\ c.wrapped = NotResponding /\ ~c.healthy
       [] OTHER ->
            c.outcome = "threw" /\ c.wrapped = WrapPrefix(c.op) /\ c.cause = error

\* C13: an attempt answered with an HTTP 4xx status is never retried, for GET
\* and POST operations alike: _makeRequest throws the HTTP error after that
\* attempt, without sleeping and without a further attempt, and the typed
\* operation ends at once (healthCheck by returning false, the others by
\* raising their error).
C13_ClientErrorNotRetried ==
  [][ \A i \in Calls :
        (AttemptFailed(i) /\ calls'[i].error.code = "HTTP"
           /\ calls'[i].error.status >= 400 /\ calls'[i].error.status <= 499)
          => /\ calls'[i].pc = "done"
             /\ calls'[i].attempts = calls[i].attempts
             /\ calls'[i].slept = calls[i].slept
             /\ EndedOn(calls'[i], calls'[i].error) ]_vars

\* A read-only call has ended on an HTTP 404 answer after one attempt.
C13_Witness ==
  \E i \in Calls :
    /\ calls[i].op = "getTrends"
    /\ calls[i].pc = "done"
    /\ calls[i].outcome = "threw"
    /\ calls[i].cause = HttpError(404)
    /\ calls[i].attempts = 1

\* C14: an attempt whose 2xx body is not valid JSON is a failed attempt that
\* is not retried, also for GET operations: the call ends after it with the
\* parse error, no result, and the attempt is recorded as one failure in the
\* breaker, not as a success.
C14_ParseErrorNotRetried ==
  [][ \A i \in Calls :
        (calls[i].pc = "reading" /\ AttemptFailed(i))
          => /\ calls'[i].pc = "done"
             /\ calls'[i].error = ParseError
             /\ calls'[i].result = NoValue
             /\ calls'[i].attempts = calls[i].attempts
             /\ calls'[i].slept = calls[i].slept
             /\ breaker'.circuitBreakerFailures = breaker.circuitBreakerFailures + 1
             /\ EndedOn(calls'[i], ParseError) ]_vars

\* A read-only call has ended on an unparseable 200 answer after one attempt.
C14_Witness ==
  \E i \in Calls :
    /\ calls[i].op = "getTodayStats"
    /\ calls[i].pc = "done"
    /\ calls[i].cause = ParseError
    /\ calls[i].attempts = 1
    /\ breaker.circuitBreakerFailures >= 1

\* C15: on a fresh client, for every k in 0..maxRetries: when the first k
\* attempts of getTodayStats or getTrends were answered with HTTP 5xx, the
\* call waits and issues attempt k+1, and when that attempt is answered 200
\* the call returns its body, having waited retryDelay*1 + ... + retryDelay*k
\* in total. (The call is the client's first and every failure so far was a
\* 5xx answer to it.)
C15_ReturnsAfterServerErrors ==
  [][ \A i \in Calls :
        (calls[i].op \in {"getTodayStats", "getTrends"}
           /\ hist.calls = 1 /\ ~hist.other)
          => /\ (AttemptFailed(i) /\ ~hist'.other
                   /\ calls[i].retryCount < maxRetries)
                  => calls'[i].pc = "sleeping"
             /\ (calls[i].pc = "sleeping" /\ CheckRan(i))
                  => AttemptIssued(i)
             /\ AttemptSucceeded(i)
                  => (/\ calls'[i].outcome = "returned"
                      /\ calls'[i].value = JsonParse(calls[i].body)
                      /\ calls'[i].slept =
                           (retryDelay * calls[i].retryCount
                              * (calls[i].retryCount + 1)) \div 2) ]_vars

\* C16: the delay waited before retry number n (n = 1..maxRetries) of a call
\* is retryDelay * n: the failed attempt before it sets a timer of that
\* length, and the retry starts when that timer has run out.
C16_LinearBackoff ==
  [][ \A i \in Calls :
        /\ (AttemptFailed(i) /\ calls'[i].pc = "sleeping")
             => LET n == calls[i].retryCount + 1 IN
                  /\ n \in 1..maxRetries
                  /\ calls'[i].timer = now + retryDelay * n
                  /\ calls'[i].slept = calls[i].slept + retryDelay * n
        /\ (calls[i].pc = "sleeping" /\ CheckRan(i))
             => (/\ now >= calls[i].timer
                 /\ calls'[i].retryCount = calls[i].retryCount + 1) ]_vars

\* A call waits 3000 ms before its third retry, having waited 1000 and 2000.
C16_Witness ==
  \E i \in Calls :
    /\ calls[i].pc = "sleeping"
    /\ calls[i].retryCount = 2
    /\ calls[i].timer = now + 3 * retryDelay
    /\ calls[i].slept = 6 * retryDelay

\* C17: healthCheck never raises: it always ends by returning a boolean,
\* which is true if and only if the request succeeded and the parsed body is
\* an object whose status field is "healthy"; for a timeout, an HTTP error,
\* a connection error, an open breaker, an unparseable body and a null body
\* it is false.
C17_HealthCheckNeverRaises ==
  \A i \in Calls :
    (calls[i].op = "healthCheck" /\ calls[i].pc = "done")
      => /\ calls[i].outcome = "returned"
         /\ calls[i].wrapped = "none"
         /\ calls[i].cause = NoError
         /\ (calls[i].healthy
               <=> (calls[i].error = NoError
                      /\ calls[i].result = JsonObject("healthy")))

\* healthCheck has returned false because the breaker rejected it.
C17_Witness ==
  \E i \in Calls :
    /\ calls[i].op = "healthCheck"
    /\ calls[i].pc = "done"
    /\ calls[i].outcome = "returned"
    /\ ~calls[i].healthy
    /\ calls[i].error = CircuitOpenError

\* C18: validateConfig on a client whose baseURL is unset throws the
\* configuration error without an HTTP attempt and without touching the
\* breaker; with baseURL set it throws if and only if healthCheck gave false
\* (the request failed or the body's status is not "healthy") and returns
\* otherwise.
C18_ValidateConfig ==
  /\ [](\A i \in Calls :
          (calls[i].op = "validateConfig" /\ calls[i].pc = "done" /\ baseURL # Unset)
            => /\ calls[i].healthy
                    <=> (calls[i].error = NoError
                           /\ calls[i].result = JsonObject("healthy"))
               /\ (calls[i].outcome = "returned" <=> calls[i].healthy)
               /\ (calls[i].outcome = "threw" <=> ~calls[i].healthy)
               /\ (calls[i].outcome = "threw" => calls[i].wrapped = NotResponding))
  /\ [][ \A i \in Calls :
           (CallStarted(i) /\ calls'[i].op = "validateConfig" /\ baseURL = Unset)
             => /\ calls'[i].pc = "done"
                /\ calls'[i].outcome = "threw"
                /\ calls'[i].wrapped = NotConfigured
                /\ calls'[i].attempts = 0
                /\ breaker' = breaker ]_vars

\* validateConfig has thrown the configuration error on a client without
\* baseURL whose breaker had counted failures, and left them as they were.
C18_Witness ==
  /\ baseURL = Unset
  /\ breaker.circuitBreakerFailures > 0
  /\ \E i \in Calls :
       /\ calls[i].op = "validateConfig"
       /\ calls[i].pc = "done"
       /\ calls[i].outcome = "threw"
       /\ calls[i].wrapped = NotConfigured
       /\ calls[i].attempts = 0

\* C19: every call of analyzeMessage, getTodayStats or getTrends that does
\* not return a backend body ends by raising one wrapped error that names
\* the operation and carries the underlying cause; none of them swallows a
\* failure or returns a value on failure.
C19_FailuresRaiseWrappedError ==
  \A i \in Calls :
    (calls[i].op \in {"analyzeMessage", "getTodayStats", "getTrends"}
       /\ calls[i].pc = "done")
      => IF calls[i].outcome = "returned"
           THEN /\ calls[i].error = NoError
                /\ calls[i].value = calls[i].result
                /\ calls[i].value # NoValue
           ELSE /\ calls[i].outcome = "threw"
                /\ calls[i].wrapped = WrapPrefix(calls[i].op)
                /\ calls[i].cause # NoError
                /\ calls[i].value = NoValue

\* C20: no HTTP attempt stays pending for longer than timeout after it
\* started: an attempt that has not produced its parsed result when the
\* timeout has elapsed is cancelled then; the cancelled attempt is recorded
\* as one failure and retried like a network error (for GET operations,
\* while retries remain).
C20_AttemptBoundedByTimeout ==
  /\ [](\A i \in Calls :
          calls[i].pc \in {"fetching", "reading"} => calls[i].age <= timeout)
  /\ [][ \A i \in Calls :
           (AttemptFailed(i) /\ calls'[i].error = AbortError)
             => /\ calls[i].age = timeout
                /\ breaker'.circuitBreakerFailures = breaker.circuitBreakerFailures + 1
                /\ (calls'[i].pc = "sleeping"
                      <=> (Method(calls[i].op) = "GET"
                             /\ calls[i].retryCount < maxRetries)) ]_vars

\* C21: with overlapping calls on one client, no HTTP attempt (first attempt
\* or retry) is started while the breaker is open and now < open-until: the
\* step that starts the attempt begins with a breaker that does not reject
\* and leaves the breaker closed, the check and the start being one step.
C21_NoAttemptWhileOpen ==
  [][\A i \in Calls :
       AttemptIssued(i) =>
         /\ ~Rejecting
         /\ ~breaker'.circuitBreakerOpen
         /\ breaker' = CheckCircuitBreaker(breaker, now).breaker]_vars

\* A retry of one call was rejected by the open breaker while another call
\* is in flight on an attempt started after the breaker's timeout.
C21_Witness ==
  \E i, j \in Calls :
    /\ i # j
    /\ calls[i].pc = "done" /\ calls[i].error = CircuitOpenError
    /\ calls[i].attempts >= 1
    /\ calls[j].pc = "fetching" /\ calls[j].probe

\* C23: the typed operations enforce their input contract before calling the
\* backend: analyzeMessage with an empty message, and getTrends with a days
\* value that is not a positive integer, fail without an HTTP attempt (and so
\* without a change of the breaker).
C23_InputContractEnforced ==
  \A i \in Calls :
    LET c == calls[i] IN
      (\/ c.op = "analyzeMessage" /\ c.arg.message = ""
       \/ c.op = "getTrends" /\ c.arg.days <= 0)
        => c.pc = "done" /\ c.outcome = "threw" /\ c.attempts = 0

\* C22: the three APIClient instances of the service (the server routes', the
\* webhook handler's and the /team-mood handler's) have independent breakers:
\* a step of an operation on one owner's client leaves the failure counter,
\* open flag and open-until of the other owners' clients unchanged. (The
\* passing of time is no operation: it only changes how far ahead a stored
\* open-until is.)
C22_IndependentBreakers ==
  [][\A o \in Owners :
       actor' = o =>
         \A p \in Owners \ {o} :
           instances'[ClientOf(p)].breaker = instances[ClientOf(p)].breaker]_vars

\* The webhook handler's client has just opened its breaker while the
\* /team-mood handler's client has failures on its counter and the server
\* routes' client has none.
C22_Witness ==
  /\ actor = "webhook"
  /\ instances[ClientOf("webhook")].breaker.circuitBreakerOpen
  /\ instances[ClientOf("webhook")].breaker.circuitBreakerResetTime = now + circuitBreakerTimeout
  /\ instances[ClientOf("teamMood")].breaker.circuitBreakerFailures = 2
  /\ ~instances[ClientOf("teamMood")].breaker.circuitBreakerOpen
  /\ instances[ClientOf("server")].breaker = NewBreaker

\* C24: a POST /bot/webhook request is processed iff no verification token is
\* configured (the variable is unset or empty) or its
\* x-zoho-verification-token header equals the configured token; every other
\* request is answered 401 and causes no event handling and no backend call.
C24_WebhookVerified ==
  (req.route = "/bot/webhook" /\ req.stage # "none" /\ ~req.limited) =>
    /\ req.verified <=> (Falsy(token) \/ req.input.header = token)
    /\ req.verified => req.handled /\ req.status # 401
    /\ ~req.verified =>
         /\ req.stage = "answered" /\ req.status = 401 /\ req.body = "Unauthorized"
         /\ ~req.handled /\ req.call = "none"

\* With a token configured, a webhook request whose header has the token's
\* length but another value has been answered 401.
C24_Witness ==
  /\ ~Falsy(token)
  /\ req.route = "/bot/webhook" /\ req.stage = "answered" /\ req.status = 401
  /\ req.input.header.set /\ req.input.header # token
  /\ Len(req.input.header.bytes) = Len(token.bytes)

\* A message text that is non-empty after trimming and at most
\* MaxMessageLength characters long.
ValidText(text) ==
  text.kind = "string" /\ text.trimmed > 0 /\ text.length <= MaxMessageLength

\* C25 as stated: through /bot/webhook, /actions/analyze and
\* /actions/suggest-reply a backend /analyze request is issued only for a
\* message text that is non-empty after trimming and at most 5000 characters
\* long; any other request is answered without a backend call.
C25_InvalidTextNoBackendCall ==
  (req.route \in AnalyzeRoutes /\ req.stage # "none") =>
    /\ req.call = "analyzeMessage" => ValidText(req.input.text) /\ ValidText(req.sent)
    /\ ~ValidText(req.input.text) => req.stage = "answered" /\ req.call = "none"

\* C25, amended: a backend /analyze request is issued only for such a text;
\* any other request is answered without a backend /analyze call, and
\* without any backend call unless it is a bot_mention event whose text
\* contains "status", which calls the backend's health check whatever the
\* length of the text.
C25_AnalyzeOnlyValidText ==
  (req.route \in AnalyzeRoutes /\ req.stage # "none") =>
    /\ req.call = "analyzeMessage" => ValidText(req.input.text) /\ ValidText(req.sent)
    /\ ~ValidText(req.input.text) =>
         \/ req.stage = "answered" /\ req.call = "none"
         \/ /\ req.call = "healthCheck" /\ req.route = "/bot/webhook"
            /\ req.input.type = "bot_mention" /\ req.input.text.command = "status"

\* A message action is asked to analyze a text of more than 5000 characters
\* of which 5000 remain after trimming, and has answered 400 without a call.
C25_Witness ==
  /\ req.route = "/actions/analyze" /\ req.stage = "answered"
  /\ req.input.text.length > MaxMessageLength
  /\ req.input.text.trimmed = MaxMessageLength
  /\ req.status = 400 /\ req.call = "none"

\* C26: every route that can trigger a backend /analyze call is behind the
\* analysis limiter: within one window at most analysisMax requests of the
\* client, counted together over /bot/webhook, /actions/analyze and
\* /actions/suggest-reply, reach a handler, and at most generalMax requests
\* over all routes get past the general limiter; a request beyond a limit is
\* answered 429 without reaching its handler and without a backend call.
C26_AnalysisRateLimited ==
  /\ limits.analysis.passed <= analysisMax
  /\ limits.general.passed <= generalMax
  /\ req.call = "analyzeMessage" => req.route \in AnalyzeRoutes
  /\ req.limited =>
       /\ req.stage = "answered" /\ req.status = 429
       /\ ~req.handled /\ req.call = "none"

\* In one window twenty requests to the three routes have reached their
\* handlers, requests to other routes have passed as well, and the
\* twenty-first, to the webhook, has been answered 429.
C26_Witness ==
  /\ req.limited /\ req.route = "/bot/webhook" /\ req.status = 429
  /\ limits.analysis.hits = analysisMax + 1
  /\ limits.analysis.passed = analysisMax
  /\ limits.general.passed > analysisMax + 1
  /\ limits.general.hits <= generalMax

\* C27: at startup, when BACKEND_API_URL is unset the process exits with
\* code 1 without ever listening and without any backend call; when it is
\* set but validateConfig fails, the server still starts listening.
C27_Startup ==
  /\ [](BaseURLMissing(baseURL) =>
          /\ proc.phase \in {"loaded", "exited"}
          /\ proc.phase = "exited" => proc.exitCode = 1
          /\ ~proc.server /\ ~proc.calledBackend /\ req.stage = "none")
  /\ [][/\ (proc.phase = "loaded" /\ BaseURLMissing(baseURL))
             => proc'.phase = "exited"
        /\ (proc.phase = "validating" /\ proc'.phase # "validating"
              /\ proc'.signals = proc.signals)
             => proc'.phase = "listening" /\ proc'.server]_vars

\* The server listens although validateConfig has failed.
C27_Witness ==
  /\ ~BaseURLMissing(baseURL)
  /\ proc.phase = "listening" /\ proc.server /\ ~proc.configOk /\ proc.calledBackend

\* C28: when a backend call fails inside a route handler (webhook,
\* /team-mood, /actions/analyze, /actions/suggest-reply), the response body is
\* a fixed generic text that is the same for every error kind and message:
\* the same request, run with any other failure of its backend call, is
\* answered with the identical body.
C28_GenericFailureBody ==
  (/\ req.stage = "answered" /\ req.failed
   /\ req.route \in AnalyzeRoutes \cup {"/commands/team-mood"}) =>
    \A end \in Ends : \A score \in StressScores :
      LET other == Reply(Handle([NoRequest EXCEPT !.route = req.route,
                                                  !.input = req.input]),
                         Ended(req.call, end), proc.adminChannel, score,
                         req.stats) IN
        other.failed => other.body = req.body

\* The webhook has answered a message whose analysis was rejected by the
\* open breaker.
C28_Witness ==
  /\ req.route = "/bot/webhook" /\ req.stage = "answered" /\ req.failed
  /\ req.call = "analyzeMessage" /\ req.error = CircuitOpenError
  /\ req.status = 500
  /\ req.body = "Analysis temporarily unavailable. Please try again."

\* C29: GET /health answers with HTTP 200 and status "healthy" iff the
\* backend healthCheck returned true, and with HTTP 503 and status "degraded"
\* otherwise (backend down, timeout, breaker open); however healthCheck
\* ends, the handler answers with one of the two.
C29_HealthAnswer ==
  /\ []((req.route = "/health" /\ req.stage = "answered" /\ ~req.limited) =>
          /\ (req.status = 200 /\ req.body = "healthy") <=> req.healthy
          /\ ~req.healthy => req.status = 503 /\ req.body = "degraded")
  /\ [][(req.route = "/health" /\ req.stage = "awaiting" /\ req' # req) =>
          /\ req'.route = "/health" /\ req'.stage = "answered"
          /\ req'.status \in {200, 503}]_vars

\* GET /health has answered 503 "degraded" while the breaker was open.
C29_Witness ==
  /\ req.route = "/health" /\ req.stage = "answered"
  /\ req.error = CircuitOpenError /\ ~req.healthy
  /\ req.status = 503 /\ req.body = "degraded"

\* C30: after SIGTERM or SIGINT the process eventually exits: at once with
\* code 0 if the server has not started listening, with code 0 once the HTTP
\* server has closed, and with code 1 at the latest shutdownTimeout after the
\* signal if it has not closed by then.
C30_ShutdownExits ==
  /\ (proc.signals > 0) ~> (proc.phase = "exited")
  /\ [](proc.signals > 0 =>
          /\ proc.phase \in {"closing", "exited"}
          /\ proc.phase = "closing" =>
               proc.listeningAtSignal /\ proc.sinceSignal <= shutdownTimeout
          /\ proc.phase = "exited" =>
               /\ proc.exitCode \in {0, 1}
               /\ proc.exitCode = 0 <=> (proc.closed \/ ~proc.listeningAtSignal)
               /\ proc.exitCode = 1 =>
                    ~proc.closed /\ proc.sinceSignal = shutdownTimeout)
  /\ [][(proc.signals = 0 /\ proc'.signals > 0 /\ ~proc.server) =>
          proc'.phase = "exited" /\ proc'.exitCode = 0]_vars

\* The server could not close because a request was still being served, and
\* the process was ended with code 1 thirty seconds after the signal.
C30_Witness ==
  /\ proc.phase = "exited" /\ proc.exitCode = 1 /\ proc.signals > 0
  /\ proc.listeningAtSignal /\ ~proc.closed
  /\ proc.sinceSignal = shutdownTimeout
  /\ req.stage = "awaiting"

\* C31: for every analysed webhook message whose stress_score is at least
\* the configured threshold (7 by default), a notification is sent to the
\* admin channel; none is sent when the score is below the threshold. Read
\* with an admin channel configured: when the webhook has answered with the
\* analysis card, a notification was sent iff the score reached the
\* threshold.
C31_AdminAlertSent ==
  (/\ req.route = "/bot/webhook" /\ req.stage = "answered"
   /\ req.call = "analyzeMessage" /\ req.score # NULL
   /\ proc.adminChannel # Unset) =>
    (req.alerts > 0 <=> req.score >= stressThreshold)

\* C32: the delays between successive retries of one call grow
\* exponentially: each delay is the previous one multiplied by a constant
\* factor greater than 1. When a failed attempt sets the timer of the second
\* or a later retry, the new delay is longer than the previous one, and from
\* the third retry on the ratio of the new delay to the previous one is the
\* ratio of the previous one to the one before it.
C32_ExponentialBackoff ==
  [][ \A i \in Calls :
        (AttemptFailed(i) /\ calls'[i].pc = "sleeping" /\ calls[i].retryCount >= 1)
          => LET new == calls'[i].delay
                 previous == calls[i].delay
                 before == calls[i].slept - calls[i].delay IN
               /\ new > previous
               /\ calls[i].retryCount = 2 => new * before = previous * previous ]_vars

\* C33: when a failed attempt of a read-only call makes the breaker open
\* while retries remain, the call issues no further HTTP attempt: the breaker
\* still rejects when the backoff wait is over, the retry is rejected, the
\* call fails with the circuit-open error in place of the underlying failure,
\* and the rejection leaves the failure counter, and the breaker, as they were.
C33_RetryRejectedAfterOpening ==
  /\ [](\A i \in Calls :
          (calls[i].pc = "sleeping" /\ breaker.circuitBreakerOpen) => Rejecting)
  /\ [][ \A i \in Calls :
          (/\ calls[i].pc = "sleeping" /\ breaker.circuitBreakerOpen
           /\ calls'[i].pc # "sleeping")
            => /\ Rejected(i) /\ ~AttemptIssued(i)
               /\ IsGetRequest(Method(calls[i].op))
               /\ calls[i].error \notin {NoError, CircuitOpenError}
               /\ calls'[i].error = CircuitOpenError
               /\ calls'[i].attempts = calls[i].attempts
               /\ breaker' = breaker ]_vars

\* The third answer with HTTP 503 to one getTodayStats call has opened the
\* breaker with a retry left, and the call waits for that retry.
C33_Witness ==
  \E i \in Calls :
    /\ calls[i].pc = "sleeping" /\ calls[i].op = "getTodayStats"
    /\ calls[i].retryCount = 2 /\ calls[i].attempts = 3
    /\ calls[i].error = HttpError(503)
    /\ breaker.circuitBreakerOpen /\ hist.calls = 1

\* C34: with overlapping calls on one client, an attempt that succeeds after
\* another call has opened the breaker sets the failure counter to 0 but does
\* not close the breaker (the open flag and open-until stay); with the counter
\* at 0 a call, or a retry, is still rejected while now < open-until, without
\* a change to the breaker, and is let through once open-until has passed.
C34_LateSuccessKeepsBreakerOpen ==
  /\ [][ \A i \in Calls :
          (AttemptSucceeded(i) /\ breaker.circuitBreakerOpen)
            => /\ hist.calls >= 2
               /\ breaker' = [breaker EXCEPT !.circuitBreakerFailures = 0]
               /\ breaker'.circuitBreakerOpen ]_vars
  /\ [][ \A j \in Calls :
          (/\ CheckRan(j) /\ breaker.circuitBreakerOpen
           /\ breaker.circuitBreakerFailures = 0)
            => IF now < breaker.circuitBreakerResetTime
                 THEN Rejected(j) /\ breaker' = breaker
                 ELSE AttemptIssued(j) /\ ~breaker'.circuitBreakerOpen ]_vars

\* One call has returned a body while the breaker was open, the counter is 0,
\* the breaker still rejects, and the other call has been rejected.
C34_Witness ==
  /\ Rejecting /\ breaker.circuitBreakerFailures = 0
  /\ \E i, j \in Calls :
       /\ i # j
       /\ calls[i].pc = "done" /\ calls[i].error = NoError
       /\ calls[i].result # NoValue
       /\ calls[j].pc = "done" /\ calls[j].error = CircuitOpenError

\* An attempt on the server routes' client fails in this step with the
\* breaker open: it started before the breaker opened.
LateFailure ==
  /\ actor' = "server"
  /\ instances[ClientOf("server")].breaker.circuitBreakerOpen
  /\ instances'[ClientOf("server")].pending < instances[ClientOf("server")].pending
  /\ instances'[ClientOf("server")].breaker.circuitBreakerFailures
       > instances[ClientOf("server")].breaker.circuitBreakerFailures

\* C35 as stated: with overlapping calls on one client, an attempt that
\* started while CLOSED and fails after the breaker has opened records its
\* failure: the failure counter rises above the threshold and open-until is
\* moved to the time of that failure + circuitBreakerTimeout, so the open
\* window is never shortened by a late failure.
C35_LateFailureMovesOpenUntil ==
  [][ LateFailure =>
        LET b == instances[ClientOf("server")].breaker
            a == instances'[ClientOf("server")].breaker IN
          /\ a.circuitBreakerFailures > circuitBreakerThreshold
          /\ a.circuitBreakerResetTime = now + circuitBreakerTimeout
          /\ a.circuitBreakerResetTime >= b.circuitBreakerResetTime ]_vars

\* C35 amended: such a failure is recorded (the counter rises by one, by two
\* for a non-2xx answer) and the breaker stays open; when the counter reaches
\* or passes the threshold, open-until is moved to the time of that failure +
\* circuitBreakerTimeout; when a success of another overlapping call has set
\* the counter to 0 meanwhile and the counter stays below the threshold,
\* open-until is left as it was. Either way open-until is never moved back.
C35_LateFailureNeverShortens ==
  [][ LateFailure =>
        LET b == instances[ClientOf("server")].breaker
            a == instances'[ClientOf("server")].breaker IN
          /\ a.circuitBreakerFailures - b.circuitBreakerFailures \in {1, 2}
          /\ a.circuitBreakerOpen
          /\ a.circuitBreakerResetTime =
               (IF a.circuitBreakerFailures >= circuitBreakerThreshold
                  THEN now + circuitBreakerTimeout
                  ELSE b.circuitBreakerResetTime)
          /\ a.circuitBreakerResetTime >= b.circuitBreakerResetTime ]_vars

\* A late failure has just moved open-until: the counter is above the
\* threshold with no attempt left in flight on the open breaker.
C35_Witness ==
  /\ actor = "server"
  /\ instances[ClientOf("server")].breaker.circuitBreakerOpen
  /\ instances[ClientOf("server")].breaker.circuitBreakerFailures
       = circuitBreakerThreshold + 1
  /\ instances[ClientOf("server")].breaker.circuitBreakerResetTime
       = now + circuitBreakerTimeout
  /\ instances[ClientOf("server")].pending = 1

\* C36: failures of healthCheck count in the same breaker as every other
\* operation of the client: each failed attempt of a healthCheck raises the
\* client's failure counter and opens the breaker when the counter reaches
\* the threshold, and with the breaker opened by failing health probes alone
\* a call of analyzeMessage (the call of /actions/analyze and of
\* /actions/suggest-reply, which pass the trimmed message text, a string) is
\* rejected without an HTTP attempt while now < open-until.
C36_HealthFailuresShareBreaker ==
  [][ \A i \in Calls :
        /\ (AttemptFailed(i) /\ calls[i].op = "healthCheck")
             => /\ breaker'.circuitBreakerFailures > breaker.circuitBreakerFailures
                /\ breaker'.circuitBreakerFailures >= circuitBreakerThreshold
                     => /\ breaker'.circuitBreakerOpen
                        /\ breaker'.circuitBreakerResetTime = now + circuitBreakerTimeout
        /\ (/\ CallStarted(i) /\ calls'[i].op = "analyzeMessage"
            /\ calls'[i].arg.message # Unset
            /\ hist.probes /\ Rejecting)
             => /\ Rejected(i) /\ ~AttemptIssued(i)
                /\ calls'[i].attempts = 0
                /\ breaker' = breaker ]_vars

\* Connection failures of health probes alone have opened the breaker, and
\* a call of analyzeMessage has been rejected without an attempt.
C36_Witness ==
  /\ hist.probes /\ ~hist.http /\ hist.total >= circuitBreakerThreshold
  /\ Rejecting
  /\ \E i \in Calls :
       /\ calls[i].op = "analyzeMessage" /\ calls[i].pc = "done"
       /\ calls[i].arg.message = "I am stressed"
       /\ calls[i].attempts = 0 /\ calls[i].cause = CircuitOpenError

\* Call i has an HTTP attempt pending or sleeps before a retry.
Pending(i) == calls[i].pc \in {"fetching", "reading", "sleeping"}

\* C37: every call of a typed operation eventually completes (returns or
\* raises), provided each HTTP attempt eventually settles and each backoff
\* wait elapses: a call makes at most maxRetries retries, hence at most
\* maxRetries + 1 attempts, and a call that is pending leads to that call
\* having ended.
C37_CallCompletes ==
  /\ [](\A i \in Calls :
          /\ calls[i].retryCount <= maxRetries
          /\ calls[i].attempts <= maxRetries + 1
          /\ Pending(i) => calls[i].outcome = "none")
  /\ \A i \in Calls :
       Pending(i) ~> (calls[i].pc = "done" /\ calls[i].outcome \in {"returned", "threw"})

\* getTrends has raised after its third retry was refused like the attempts
\* before it.
C37_Witness ==
  \E i \in Calls :
    /\ calls[i].op = "getTrends" /\ calls[i].pc = "done"
    /\ calls[i].outcome = "threw"
    /\ calls[i].retryCount = maxRetries
    /\ calls[i].cause = NetworkError("ECONNREFUSED")

\* An authorised webhook event has reached its handler.
Authorised == req.route = "/bot/webhook" /\ req.verified

\* The event's message text can be read as a text: it is a string, or absent.
TextReadable == req.input.text.kind # "number"

\* C38: an authorised webhook event causes a backend /analyze call only when
\* it is a 'message' event, or a 'bot_mention' event whose text contains
\* neither 'help' nor 'status', with non-empty text from a non-bot user;
\* bot-authored or empty messages, 'help' mentions, 'participant_joined' and
\* unknown event types cause no backend call and, the text being a string
\* or absent, are answered 200; and a 'status' mention (one without 'help',
\* which is tested first) calls healthCheck and nothing else.
C38_WebhookRouting ==
  Authorised =>
    LET in == req.input
        mention == in.type = "bot_mention"
        help == mention /\ Contains(in.text, "help")
        status == mention /\ Contains(in.text, "status") /\ ~help
        analysed == in.type = "message" \/ (mention /\ ~help /\ ~status) IN
      /\ req.call = "analyzeMessage"
           => analysed /\ in.text.kind = "string" /\ in.text.trimmed > 0 /\ ~in.isBot
      /\ (\/ analysed /\ (in.isBot \/ in.text.trimmed = 0)
          \/ help
          \/ in.type \notin {"message", "bot_mention"})
           => /\ req.call = "none" /\ req.stage = "answered"
              /\ (TextReadable \/ in.type \notin {"message", "bot_mention"})
                   => req.status = 200
      /\ status /\ TextReadable => req.call = "healthCheck" /\ req.sent = NoText
      /\ req.call = "healthCheck" => status

\* A mention from a bot that contains 'status' has been answered from the
\* health check alone.
C38_Witness ==
  /\ Authorised /\ req.stage = "answered"
  /\ req.input.type = "bot_mention" /\ req.input.isBot
  /\ req.input.text = Text(12, 10, "status")
  /\ req.call = "healthCheck" /\ req.status = 200
  /\ req.body = "Backend is healthy and ready!"

\* The filled cells of a bar.
Filled(bar) == Cardinality({i \in DOMAIN bar.cells : bar.cells[i] = "filled"})

\* The percentage a field stands for, in tenths, when it is a finite number
\* within [0, 100]; 0 below the range and for a value that is no number,
\* 1000 above the range.
Clamped(field) ==
  LET num == IF field.type \in {"number", "string"} THEN field.num ELSE NaN IN
    IF num.nan \/ num.inf = -1 THEN 0
    ELSE IF num.inf = 1 THEN 1000
    ELSE IF num.tenths < 0 THEN 0
    ELSE IF num.tenths > 1000 THEN 1000 ELSE num.tenths

\* C39: for every percentage value the backend can supply in a stats result
\* (in range, out of range, negative or non-numeric), each sentiment bar of
\* the /team-mood card has exactly 10 cells, of which between 0 and 10 are
\* filled: the filled cells come first and their number is the clamped
\* percentage divided by 10 and rounded, and the card is answered.
C39_BarsHaveTenCells ==
  (req.route = "/commands/team-mood" /\ req.bars # <<>>) =>
    /\ Len(req.bars) = 3
    /\ req.stage = "answered" /\ ~req.failed /\ req.body = "Team Mood Report"
    /\ \A k \in 1..3 :
         LET bar == req.bars[k]
             field == IF k = 1 THEN req.stats.positive_pct
                      ELSE IF k = 2 THEN req.stats.neutral_pct
                      ELSE req.stats.negative_pct IN
           /\ ~bar.threw
           /\ Len(bar.cells) = 10
           /\ Filled(bar) \in 0..10
           /\ \A i \in 1..10 : bar.cells[i] = "filled" <=> i <= Filled(bar)
           /\ 10 * Filled(bar) - 5 <= Clamped(field) \div 10
           /\ Clamped(field) \div 10 <= 10 * Filled(bar) + 5

\* The card for positive_pct = 250 and a neutral_pct that is no number has
\* a full first bar and an empty second one.
C39_Witness ==
  /\ req.route = "/commands/team-mood" /\ req.stage = "answered"
  /\ req.stats.positive_pct = JsonNumber(Finite(2500))
  /\ req.stats.neutral_pct = JsonString(NaN)
  /\ Filled(req.bars[1]) = 10 /\ Filled(req.bars[2]) = 0
  /\ Len(req.bars[2].cells) = 10
====
